---- MODULE Spec2Model ----
(***************************************************************************)
(* A model of SDPProblem (src/src/core/sdpsos/solver.py): the solve()      *)
(* entry point, the three numeric strategies, the candidate generator      *)
(* with the iteration back-off of the backend, and the constraint scopes.  *)
(*                                                                         *)
(* The numeric backend (PICOS) and rationalize_and_decompose are external: *)
(* every outcome they can have is a nondeterministic choice.  An execution *)
(* of the backend returns a solution with a primal for y, returns one      *)
(* without (its report of an infeasible program, the KeyError of           *)
(* _nsolve_with_obj), raises ZeroDivisionError or raises another error.    *)
(* Building the program (_construct_sos, Strategy.from_problem) is taken   *)
(* to succeed.  A numeric vector y is told apart by its position in the    *)
(* history.  solve() is called again only while the history is shorter     *)
(* than MaxHist.                                                           *)
(***************************************************************************)
EXTENDS Integers, Sequences, FiniteSets, TLC

\* ------------------------------------------------------------------ bounds
MaxDof == 2
MaxObj == 2
MaxExtra == 2
MaxHist == 2
MaxSize == 3
TableSize == 2
MaxOrder == 2
MaxOver == 7

\* ------------------------------------------------------- program constants
max_iters == 50
min_iters == 10
updeg == 11
deglim == 18

VARIABLES
    \* the problem (fixed by the constructor)
    dof,          \* self.space.shape[1]
    keys,         \* the blocks of size > 0 (self._not_none_keys())
    hasPicos,     \* SDPProblem._has_picos
    orig,         \* self.keys, self._x0, self._space, self._splits, self.free_symbols_
    view,         \* self.x0, self.space, self.splits, self.free_symbols, self.masked_rows
    maskLog,      \* the latest call of set_masked_rows, pad_masked_rows or S_from_y
    \* the callers
    sdpsos,       \* the running call of SDPSOS (sdpsos.py)
    sumOfSquare,  \* the running call of sum_of_square (sum_of_square.py)
    gui,          \* the SOS_Manager and its running call of GUI_SOS (sos_manager.py)
    \* the object
    ys,           \* self._ys, the history of numeric candidates
    recorded,     \* (self.y, self.S)
    constraints,  \* self.sos.constraints, in order
    objective,    \* the objective of self.sos
    \* the arguments of the running solve() call
    method, allowNumer, objectives, nExtra,
    \* control
    pc,           \* where the call is
    objs,         \* the objective list of the running generator
    k,            \* index in objs of the objective in hand
    iters,        \* max_iters of the running _nsolve_with_early_stop
    ctx,          \* the context the generator runs in
    ctxNum,       \* constraints_num captured by that context
    pdI,          \* coordinate under deflation
    pdNum,        \* constraints_num captured by partial deflation's context
    cntYs,        \* cnt_ys of the running deflation step
    ra,           \* the value the strategy / stage returned
    \* what happened in the running call
    stages,       \* stages of _solve_wrapped run, with what each returned
    budgets,      \* budgets of the executions for the objective in hand
    yielded,      \* items the running generator has yielded
    solved,       \* objectives set (and solved) in this call, in order
    lastExec,     \* outcome of the latest backend execution of this call
    nConstruct,   \* _construct_sos calls of this call
    nDegen,       \* _solve_degenerated calls of this call
    ys0,          \* the history when the call started
    cs0,          \* the constraint list when the strategy started
    combined,     \* the candidates the latest rationalize_combine averaged
    result        \* what solve() gave its caller

callVars == <<sdpsos, sumOfSquare, gui>>
probVars == <<dof, keys, hasPicos, orig, view, maskLog, callVars>>
objVars  == <<ys, recorded, constraints, objective>>
argVars  == <<method, allowNumer, objectives, nExtra>>
ctlVars  == <<pc, objs, k, iters, ctx, ctxNum, pdI, pdNum, cntYs, ra>>
logVars  == <<stages, budgets, yielded, solved, lastExec,
              nConstruct, nDegen, ys0, cs0, combined>>
vars == <<probVars, objVars, argVars, ctlVars, logVars, result>>

\* ------------------------------------------------------------------ values
None == [t |-> "None", src |-> <<>>]
IsNone(x) == x.t = "None"

\* A solution (y, decompositions) as rationalize_and_decompose returns it:
\* t tells which call produced it, src the candidates it was computed from.
Decomp(t, src) == [t |-> t, src |-> src]

\* What the external rationalize_and_decompose can return for an input.
RationalizeOutcomes(t, src) == {None, Decomp(t, src)}

NoObjective == [dir |-> "find", f |-> "none", i |-> 0]
Obj(d, f, i) == [dir |-> d, f |-> f, i |-> i]

\* _get_defaulted_objectives
DefaultObjectives == <<Obj("max", "tr", 0), Obj("min", "tr", 0), Obj("max", "sum", 0)>>

\* A caller-given objective list of length n.
CustomObjectives(n) == [j \in 1..n |-> Obj("max", "custom", j)]

\* The objectives argument of solve(): None, or a list of the caller's.
NoObjectives == [none |-> TRUE, list |-> <<>>]

ObjectiveArgs == {NoObjectives} \cup {[none |-> FALSE, list |-> CustomObjectives(n)] : n \in 0..MaxObj}

\* if objectives is None: objectives = self._get_defaulted_objectives()
ObjectiveList(arg) == IF arg.none THEN DefaultObjectives ELSE arg.list

\* the two objectives of deflation step i
DeflationObjectives(i) == <<Obj("max", "y", i), Obj("min", "y", i)>>

\* the objective of the relax strategy
RelaxObjectives == <<Obj("max", "lamb", 0)>>

\* ------------------------------------------------------------ constraints
Con(t, i) == <<t, i>>

RECURSIVE BaseConstraints(_)
\* _construct_sos: per non-empty block, S >> reg and S.vec == x0 + space * y
BaseConstraints(n) ==
    IF n = 0 THEN <<>>
    ELSE BaseConstraints(n - 1) \o <<Con("psd", n), Con("eq", n)>>

RemoveAt(cs, j) == SubSeq(cs, 1, j - 1) \o SubSeq(cs, j + 1, Len(cs))

RECURSIVE RemoveDownTo(_, _)
\* for i in range(len(sos.constraints) - 1, constraints_num - 1, -1):
\*     sos.remove_constraint(i)
RemoveDownTo(cs, num) ==
    IF Len(cs) - 1 >= num THEN RemoveDownTo(RemoveAt(cs, Len(cs)), num) ELSE cs

RECURSIVE AddExtra(_, _, _)
\* for constraint in constraints: sos.add_constraint(constraint)
AddExtra(cs, j, n) ==
    IF j > n THEN cs ELSE AddExtra(Append(cs, Con("extra", j)), j + 1, n)

\* LMI constraints holding the leading block's variable
IsLeadingLMI(c) == c = Con("psd", 1)

\* _solve_relax.restore_constraints, up to its yield
RelaxEnter(cs) ==
    LET hits == {j \in 1..Len(cs) : IsLeadingLMI(cs[j])}
        cut  == IF hits = {} THEN cs
                ELSE RemoveAt(cs, CHOOSE j \in hits : \A h \in hits : j <= h)
    IN  cut \o <<Con("relaxlmi", 1), Con("lamb", 0)>>

\* _solve_relax.restore_constraints, after its yield
RelaxExit(cs) == RemoveAt(RemoveAt(cs, Len(cs)), Len(cs) - 1)

\* ------------------------------------------------------------------ method
Methods == {"trivial", "Relax", "partial deflation", "newton"}

\* method.lower()
Lower(m) == IF m = "Relax" THEN "relax" ELSE m

\* --------------------------------------------------------------- SDPResult
\* faulty variant: a result that tells the perturbed fallback from an exact solution
SDPResultMarked(solution) ==
    IF IsNone(solution)
    THEN [y |-> None, S |-> None, decompositions |-> None, success |-> FALSE]
    ELSE [y |-> solution, S |-> solution, decompositions |-> solution,
          success |-> solution.t # "perturb"]

\* SDPResult.__init__
SDPResult(solution) ==
    IF IsNone(solution)
    THEN [y |-> None, S |-> None, decompositions |-> None, success |-> FALSE]
    ELSE [y |-> solution, S |-> solution, decompositions |-> solution, success |-> TRUE]

Returned(solution) == [status |-> "returned", value |-> SDPResult(solution), error |-> "none"]
Raised(e) == [status |-> "raised", value |-> SDPResult(None), error |-> e]
NoResult == [status |-> "none", value |-> SDPResult(None), error |-> "none"]

\* the keys SOSProblem gives its SDPProblem: the minor block is optional
KeyLists == {<<"major">>, <<"major", "minor">>}

\* ------------------------------------------------------------ row masking
\* A vector of upper triangles (x0, or a column pattern of space) is a
\* sequence over its rows.  A row of space is 0 (a zero row) or j (the unit
\* row e_j): for this family of problems the linear system of a mask is
\* solved exactly.  A dict is a function on its keys.
Range(q) == {q[j] : j \in 1..Len(q)}

Min(a, b) == IF a <= b THEN a ELSE b

\* the number of entries of the upper triangle of an n x n matrix
Tri(n) == (n * (n + 1)) \div 2

\* round(np.sqrt(2 * (split.stop - split.start) + .25) - .5)
BlockSize(split) ==
    CHOOSE n \in 0..(split.stop - split.start) :
        Tri(n) <= split.stop - split.start /\ split.stop - split.start < Tri(n + 1)

RECURSIVE SplitVector(_)
\* split_vector: consecutive slices, one upper triangle for each dimension
SplitVector(dims) ==
    IF dims = <<>> THEN <<>>
    ELSE LET head  == SplitVector(SubSeq(dims, 1, Len(dims) - 1))
             start == IF head = <<>> THEN 0 ELSE head[Len(head)].stop
         IN  Append(head, [start |-> start, stop |-> start + Tri(dims[Len(dims)])])

RECURSIVE UpperFrom(_, _, _)
\* the pairs (i, j), (i, j + 1), .., (i, n - 1), (i + 1, i + 1), ..
UpperFrom(n, i, j) ==
    IF i >= n THEN <<>>
    ELSE IF j >= n THEN UpperFrom(n, i + 1, i + 1)
    ELSE <<(<<i, j>>)>> \o UpperFrom(n, i, j + 1)

\* upper_vec_of_symmetric_matrix(n, return_inds = True): the pairs (i, j)
\* with i <= j, row after row
UpperInds(n) == UpperFrom(n, 0, 0)

\* an empty dict
EmptyMask == [key \in {} |-> <<>>]

\* masks.get(key, [])
Get(masks, key) == IF key \in DOMAIN masks THEN masks[key] ELSE <<>>

\* len(masks) == 0 or not any(_ for _ in masks.values())
IsEmptyMask(masks) == \A key \in DOMAIN masks : masks[key] = <<>>

\* _masked_dims: (key, dimension) in key order, from the unmasked splits
\* and the masked rows
MaskedDims(o, masked_rows, filter_zero) ==
    LET all == [i \in 1..Len(o.keys) |->
                   [key |-> o.keys[i],
                    dim |-> BlockSize(o.splits[i]) - Len(Get(masked_rows, o.keys[i]))]]
    IN  SelectSeq(all, LAMBDA e : ~(filter_zero /\ e.dim = 0))

\* _not_none_keys
NotNoneKeys(o, masked_rows) ==
    LET dims == MaskedDims(o, masked_rows, TRUE)
    IN  [i \in 1..Len(dims) |-> dims[i].key]

RECURSIVE HitLines(_, _, _, _)
\* for v, (i, j) in enumerate(inds), from v on:
\*     if i in mask or j in mask: lines.append(v + start)
HitLines(inds, rows, start, v) ==
    IF v >= Len(inds) THEN <<>>
    ELSE (IF inds[v + 1][1] \in rows \/ inds[v + 1][2] \in rows THEN <<v + start>> ELSE <<>>)
         \o HitLines(inds, rows, start, v + 1)

\* the lines of one block
BlockLines(mask, split) ==
    HitLines(UpperInds(BlockSize(split)), Range(mask), split.start, 0)

RECURSIVE Lines(_, _, _, _)
\* for key, split in zip(self._not_none_keys(), self.splits), from pair p on
Lines(masks, nnkeys, splits, p) ==
    IF p > Min(Len(nnkeys), Len(splits)) THEN <<>>
    ELSE LET mask == Get(masks, nnkeys[p])
         IN  (IF mask = <<>> THEN <<>> ELSE BlockLines(mask, splits[p]))
             \o Lines(masks, nnkeys, splits, p + 1)

\* solve_undetermined_linear(perp_space, tar_space) for the rows `lines` of
\* (x0, space): ok tells whether space[lines] * y = - x0[lines] has a
\* solution; x1 is a particular solution; space1 maps the coordinates that
\* stay free onto the new ones (0 for a coordinate the system determines)
SolveUndeterminedLinear(x0, space, ncols, lines) ==
    LET L      == Range(lines)
        tar(l) == 0 - x0[l + 1]
        co(l)  == space[l + 1]
        pinned == {co(l) : l \in L} \ {0}
    IN  [ok     |-> /\ \A l \in L : co(l) = 0 => tar(l) = 0
                    /\ \A l1, l2 \in L : co(l1) = co(l2) => tar(l1) = tar(l2),
         x1     |-> [j \in 1..ncols |->
                        IF j \in pinned THEN tar(CHOOSE l \in L : co(l) = j) ELSE 0],
         space1 |-> [j \in 1..ncols |->
                        IF j \in pinned THEN 0
                        ELSE Cardinality({i \in 1..j : i \notin pinned})],
         ncols  |-> ncols - Cardinality(pinned)]

RECURSIVE SlotOrder(_, _)
\* list(set): the elements in the order of their slots in the hash table,
\* v mod (size of the table); a table larger than every element gives the
\* increasing order
SlotOrder(S, size) ==
    IF S = {} THEN <<>>
    ELSE LET first == CHOOSE v \in S : \A u \in S :
                          \/ v % size < u % size
                          \/ v % size = u % size /\ v <= u
         IN  <<first>> \o SlotOrder(S \ {first}, size)

RECURSIVE Increasing(_)
Increasing(S) ==
    IF S = {} THEN <<>>
    ELSE LET first == CHOOSE v \in S : \A u \in S : v <= u
         IN  <<first>> \o Increasing(S \ {first})

\* list(set(range(m)) - set(q)): the language does not fix the order of a
\* set; CPython orders by slot (set(range(9)) - {0, 1, 2, 3, 4} is listed
\* as 8, 5, 6, 7), with tables of 8 slots and more, here TableSize and more
SetOrders(S) == {Increasing(S), SlotOrder(S, TableSize)}

\* [sp.Symbol('y_{%d}' % i) for i in range(n)]
Symbols(name, n) == [i \in 1..n |-> [name |-> name, i |-> i - 1]]

\* the view given by the unmasked values: self.x0, self.space, self.splits =
\* self._x0, self._space, self._splits; self.free_symbols =
\* self.free_symbols_; self.masked_rows = {}
Unmasked(o) ==
    [x0 |-> o.x0, space |-> o.space, ncols |-> o.ncols, splits |-> o.splits,
     free_symbols |-> o.free_symbols, masked_rows |-> EmptyMask]

\* faulty variant: the view the call found is kept
ResetViewKept(o, v) == v

\* set_masked_rows, its first four statements
ResetView(o, v) == Unmasked(o)

\* set_masked_rows, from `self.x0 += self.space @ x1` to its end, for a
\* view v, the solution sol of the system and the list not_lines
Reduce(o, v, masks, sol, not_lines) ==
    LET x0    == [r \in 1..Len(v.x0) |->
                     v.x0[r] + (IF v.space[r] = 0 THEN 0 ELSE sol.x1[v.space[r]])]
        space == [r \in 1..Len(v.space) |->
                     IF v.space[r] = 0 THEN 0 ELSE sol.space1[v.space[r]]]
        dims  == MaskedDims(o, masks, FALSE)
    IN  [x0 |-> [j \in 1..Len(not_lines) |-> x0[not_lines[j] + 1]],
         space |-> [j \in 1..Len(not_lines) |-> space[not_lines[j] + 1]],
         ncols |-> sol.ncols,
         splits |-> SplitVector([i \in 1..Len(dims) |-> dims[i].dim]),
         free_symbols |-> Symbols("y", sol.ncols),
         masked_rows |-> masks]

\* a square matrix: its size and its entries
Matrix(n, at) == [n |-> n, at |-> at]

\* a matrix of size n with entries that differ from each other and from 0
GenericMatrix(n) ==
    Matrix(n, [p \in (0..(n - 1)) \X (0..(n - 1)) |-> 1 + p[1] * n + p[2]])

\* pad_masked_rows, after `if not mask: return S`, for the list not_masked
PadMaskedRows(S, mask, not_masked) ==
    LET m == S.n + Len(mask)
    IN  Matrix(m, [p \in (0..(m - 1)) \X (0..(m - 1)) |->
                      IF p[1] \in Range(not_masked) /\ p[2] \in Range(not_masked)
                      THEN S.at[<<(CHOOSE v \in 1..Len(not_masked) : not_masked[v] = p[1]) - 1,
                                  (CHOOSE v \in 1..Len(not_masked) : not_masked[v] = p[2]) - 1>>]
                      ELSE 0])

\* A problem of the family: blocks of the given sizes; x0 is 0 (a = 0) or
\* alternates 1, 0 (a = 1); the rows of space go through e_1 .. e_b and a
\* zero row; the free symbols are the caller's.
Problem(sizes, a, b) ==
    LET splits == SplitVector(sizes)
        rows   == IF splits = <<>> THEN 0 ELSE splits[Len(splits)].stop
    IN  [keys |-> SubSeq(<<"major", "minor">>, 1, Len(sizes)),
         x0 |-> [r \in 1..rows |-> IF a = 0 THEN 0 ELSE r % 2],
         space |-> [r \in 1..rows |-> IF b = 0 THEN 0 ELSE r % (b + 1)],
         ncols |-> b,
         splits |-> splits,
         free_symbols |-> Symbols("u", b)]

\* the problem solve() is studied on: dof free coordinates, the blocks of
\* the keys non-empty
DefaultProblem(d, ks) == Problem(SubSeq(<<2, 1>>, 1, Len(ks)), 0, d)

NoMaskLog ==
    [op |-> "none", masks |-> EmptyMask, before |-> FALSE, hadYs |-> FALSE,
     raised |-> FALSE, key |-> "none",
     S |-> GenericMatrix(0), Z |-> GenericMatrix(0), pairs |-> <<>>]

\* ------------------------------------------------------------- the callers
\* no call of SDPSOS is running
NoSdpsos ==
    [pc |-> "idle", minor |-> <<>>, at |-> 0, method |-> "trivial", allow_numer |-> FALSE,
     log |-> <<>>, out |-> "none"]

\* no call of sum_of_square is running
NoSumOfSquare ==
    [pc |-> "idle", given |-> FALSE, method_order |-> <<>>, at |-> 0, called |-> <<>>,
     out |-> "none"]

\* SOS_Manager.__init__(GUI): no call of GUI_SOS is running
SOS_Manager(GUI) ==
    [pc |-> "idle", GUI |-> GUI, deg |-> 0, poly_iscyc |-> FALSE, updeg |-> updeg,
     stage |-> 60, n |-> 0, use_structural_method |-> TRUE, out |-> "none"]

NoGui == SOS_Manager(FALSE)

\* SDPProblem is used without the callers
NoCalls == sdpsos = NoSdpsos /\ sumOfSquare = NoSumOfSquare /\ gui = NoGui

\* -------------------------------------------------------------------- Init
SolverInit ==
    /\ dof \in 0..MaxDof
    /\ keys \in KeyLists
    /\ hasPicos \in BOOLEAN
    /\ orig = DefaultProblem(dof, keys)
    /\ view = Unmasked(orig)
    /\ maskLog = NoMaskLog
    /\ ys = <<>>
    /\ recorded = None
    /\ constraints = <<>>
    /\ objective = NoObjective
    /\ method = "trivial" /\ allowNumer = FALSE /\ objectives = NoObjectives /\ nExtra = 0
    /\ pc = "idle"
    /\ objs = <<>> /\ k = 0 /\ iters = 0
    /\ ctx = "none" /\ ctxNum = 0 /\ pdI = 0 /\ pdNum = 0 /\ cntYs = 0
    /\ ra = None
    /\ stages = <<>> /\ budgets = <<>> /\ yielded = <<>> /\ solved = <<>>
    /\ lastExec = "none"
    /\ nConstruct = 0 /\ nDegen = 0
    /\ ys0 = <<>> /\ cs0 = <<>> /\ combined = <<>>
    /\ result = NoResult

\* a problem no caller is working on
Init == SolverInit /\ NoCalls

\* ----------------------------------------------------------------- solve()
Stage(name, r) == [name |-> name, out |-> IF IsNone(r) THEN "None" ELSE "solution"]

\* faulty variant: the degenerate path is never taken for a problem without freedom
UseDegeneratedNegative(d) == d < 0

\* if self.dof == 0
UseDegenerated(d) == d = 0

\* solve(), up to the call of _solve_degenerated or _solve_wrapped.  The
\* keyword arguments objectives and constraints are those of _solve_trivial.
Solve(m, a, o, x) ==
    /\ pc = "idle"
    /\ Len(ys) < MaxHist
    /\ (Lower(m) # "trivial" => o = NoObjectives /\ x = 0)
    /\ method' = m /\ allowNumer' = a /\ objectives' = o /\ nExtra' = x
    /\ result' = NoResult
    /\ ra' = None
    /\ stages' = <<>> /\ budgets' = <<>> /\ yielded' = <<>> /\ solved' = <<>>
    /\ lastExec' = "none" /\ nDegen' = 0
    /\ ys0' = ys /\ combined' = <<>>
    /\ objs' = <<>> /\ k' = 0 /\ iters' = 0
    /\ ctx' = "none" /\ ctxNum' = 0 /\ pdI' = 0 /\ pdNum' = 0 /\ cntYs' = 0
    /\ IF UseDegenerated(dof)
       THEN /\ pc' = "degenerated"
            /\ nConstruct' = 0 /\ cs0' = constraints
            /\ UNCHANGED <<constraints, objective>>
       ELSE IF hasPicos
       THEN \* self._construct_sos(): a new picos.Problem
            /\ pc' = "wrapped"
            /\ nConstruct' = 1
            /\ constraints' = BaseConstraints(Len(keys))
            /\ cs0' = BaseConstraints(Len(keys))
            /\ objective' = NoObjective
       ELSE /\ pc' = "finish"
            /\ nConstruct' = 0 /\ cs0' = constraints
            /\ UNCHANGED <<constraints, objective>>
    /\ maskLog' = NoMaskLog
    /\ UNCHANGED <<dof, keys, hasPicos, orig, view, callVars, ys, recorded>>

\* _solve_degenerated
SolveDegenerated ==
    /\ pc = "degenerated"
    /\ \E r \in RationalizeOutcomes("degenerated", <<>>) : ra' = r
    /\ nDegen' = nDegen + 1
    /\ pc' = "finish"
    /\ UNCHANGED <<probVars, objVars, argVars, objs, k, iters, ctx, ctxNum, pdI, pdNum,
                   cntYs, stages, budgets, yielded, solved, lastExec, nConstruct,
                   ys0, cs0, combined, result>>

\* faulty variant: self.y and self.S are assigned whatever the solution is
SolveReturnOverwrites ==
    /\ pc = "finish"
    /\ recorded' = ra
    /\ result' = Returned(ra)
    /\ pc' = "idle"
    /\ UNCHANGED <<probVars, ys, constraints, objective, argVars, objs, k, iters,
                   ctx, ctxNum, pdI, pdNum, cntYs, ra, logVars>>

\* solve(), from `if solution is not None` to its return
SolveReturn ==
    /\ pc = "finish"
    /\ recorded' = IF IsNone(ra) THEN recorded ELSE ra
    /\ result' = Returned(ra)
    /\ pc' = "idle"
    /\ UNCHANGED <<probVars, ys, constraints, objective, argVars, objs, k, iters,
                   ctx, ctxNum, pdI, pdNum, cntYs, ra, logVars>>

\* faulty variant: solve() swallows the error and returns a failed result
RaiseSwallowed(e) ==
    /\ result' = Returned(None)
    /\ pc' = "idle"

\* An error leaves solve(): no frame between the raise and the caller of
\* solve() catches it.
Raise(e) ==
    /\ result' = Raised(e)
    /\ pc' = "idle"

\* ---------------------------------------------------------- _solve_wrapped
\* `if ra is not None: return ra` after the strategy
StrategyReturns(r) ==
    /\ ra' = r
    /\ stages' = Append(stages, Stage("strategy", r))
    /\ pc' = IF IsNone(r) THEN "combine" ELSE "finish"

\* _solve_wrapped: the dispatch on method.lower()
SolveWrapped ==
    /\ pc = "wrapped"
    /\ LET lm == Lower(method) IN
       CASE lm = "trivial" ->
              \* _solve_trivial: the context is built, not yet entered
              /\ ctx' = IF nExtra > 0 THEN "trivial" ELSE "none"
              /\ objs' = ObjectiveList(objectives)
              /\ pc' = "generator"
              /\ UNCHANGED <<result, stages>>
         [] lm = "relax" ->
              /\ ctx' = "relax"
              /\ objs' = RelaxObjectives
              /\ pc' = "generator"
              /\ UNCHANGED <<result, stages>>
         [] lm = "partial deflation" ->
              /\ pc' = "deflation"
              /\ UNCHANGED <<ctx, objs, result, stages>>
         [] OTHER ->
              /\ Raise("ValueError")
              /\ stages' = stages
              /\ UNCHANGED <<ctx, objs>>
    /\ UNCHANGED <<probVars, objVars, argVars, k, iters, ctxNum, pdI, pdNum, cntYs, ra,
                   budgets, yielded, solved, lastExec, nConstruct, nDegen, ys0, cs0,
                   combined>>

\* --------------------------------------------------------------- contexts
\* what `with context:` does to sos.constraints on entry
EnterContext(c, cs, n) ==
    CASE c = "trivial" -> AddExtra(cs, 1, n)
      [] c = "relax"   -> RelaxEnter(cs)
      [] OTHER         -> cs

\* what `with context:` does to sos.constraints when its block ends normally
ExitContext(c, cs, num) ==
    CASE c = "trivial" -> RemoveDownTo(cs, num)
      [] c = "relax"   -> RelaxExit(cs)
      [] OTHER         -> cs

\* what `with context:` does to sos.constraints when its block is left by
\* an exception (GeneratorExit included): none of the three generator-based
\* contexts has a try/finally, so the code after their yield does not run
AbortContext(c, cs, num) == cs

\* -------------------------------------------------------- _nsolve_with_obj
Candidate(id) == [t |-> "y", src |-> <<id>>]

\* the numeric vector y read from the solution (told apart by its position)
NewCandidate(h) == Len(h) + 1

\* _nsolve_with_rationalization returns r to the strategy that called it
\* (the frames of the generator and of _nsolve_with_early_stop are gone)
ConsumerReturns(r) ==
    /\ IF Lower(method) = "partial deflation"
       THEN /\ ra' = r
            /\ pc' = "deflation_after"
            /\ stages' = stages
       ELSE StrategyReturns(r)
    /\ k' = 0 /\ iters' = 0
    /\ budgets' = <<>> /\ yielded' = <<>> /\ lastExec' = "none"

\* the generator goes on to the next objective of its list
Advance ==
    /\ k' = k + 1
    /\ pc' = IF k + 1 > Len(objs) THEN "generator_exit" ELSE "set_objective"

\* _nsolve_with_obj is started: `with context:` is entered
GeneratorStart ==
    /\ pc = "generator"
    /\ ctxNum' = Len(constraints)
    /\ constraints' = EnterContext(ctx, constraints, nExtra)
    /\ yielded' = <<>>
    /\ k' = 1
    /\ pc' = IF Len(objs) = 0 THEN "generator_exit" ELSE "set_objective"
    /\ UNCHANGED <<probVars, ys, recorded, objective, argVars, objs, iters, ctx,
                   pdI, pdNum, cntYs, ra, stages, budgets, solved, lastExec, nConstruct,
                   nDegen, ys0, cs0, combined, result>>

\* sos.set_objective(...); self._nsolve_with_early_stop(max_iters = 50)
SetObjective ==
    /\ pc = "set_objective"
    /\ objective' = objs[k]
    /\ solved' = Append(solved, objs[k])
    /\ iters' = max_iters
    /\ budgets' = <<>>
    /\ pc' = "execute"
    /\ UNCHANGED <<probVars, ys, recorded, constraints, argVars, objs, k, ctx,
                   ctxNum, pdI, pdNum, cntYs, ra, stages, yielded, lastExec, nConstruct,
                   nDegen, ys0, cs0, combined, result>>

\* sos.options.max_iterations = max_iters; sos._strategy.execute()
Execute(out) ==
    /\ pc = "execute"
    /\ budgets' = Append(budgets, iters)
    /\ lastExec' = out

\* faulty variant: the floor is compared with the budget before halving
RetryWithoutHalving(mi) == mi >= min_iters /\ mi > 1

\* if max_iters // 2 >= min_iters and max_iters > 1
RetryAllowed(mi) == (mi \div 2) >= min_iters /\ mi > 1

\* faulty variant: the new candidate is put in front of the history
ExecutePrimalPrepend ==
    /\ Execute("primal")
    /\ ys' = <<NewCandidate(ys)>> \o ys
    /\ yielded' = Append(yielded, Candidate(NewCandidate(ys)))
    /\ pc' = "rationalize"
    /\ UNCHANGED <<probVars, recorded, constraints, objective, argVars, objs, k, iters, ctx,
                   ctxNum, pdI, pdNum, cntYs, ra, stages, solved, nConstruct, nDegen, ys0,
                   cs0, combined, result>>

\* the execution returns a solution holding a primal for y:
\* self._ys.append(y); yield y
ExecutePrimal ==
    /\ Execute("primal")
    /\ ys' = Append(ys, NewCandidate(ys))
    /\ yielded' = Append(yielded, Candidate(NewCandidate(ys)))
    /\ pc' = "rationalize"
    /\ UNCHANGED <<probVars, recorded, constraints, objective, argVars, objs, k, iters, ctx,
                   ctxNum, pdI, pdNum, cntYs, ra, stages, solved, nConstruct, nDegen, ys0,
                   cs0, combined, result>>

\* faulty variant: a solution without a primal for y counts as no solution for the
\* objective, and the generator goes on
ExecuteInfeasibleAsNone ==
    /\ Execute("noprimal")
    /\ yielded' = Append(yielded, None)
    /\ Advance
    /\ UNCHANGED <<probVars, ys, recorded, constraints, objective, argVars, objs, iters, ctx,
                   ctxNum, pdI, pdNum, cntYs, ra, stages, solved, nConstruct, nDegen, ys0,
                   cs0, combined, result>>

\* the execution returns a solution without a primal for y (the backend
\* found the program infeasible): KeyError, raise SDPInfeasibleError
ExecuteInfeasible ==
    /\ Execute("noprimal")
    /\ Raise("SDPInfeasibleError")
    /\ stages' = Append(stages, [name |-> "strategy", out |-> "raised"])
    /\ constraints' = AbortContext(ctx, constraints, ctxNum)
    /\ UNCHANGED <<probVars, ys, recorded, objective, argVars, objs, k, iters, ctx, ctxNum,
                   pdI, pdNum, cntYs, ra, yielded, solved, nConstruct, nDegen, ys0, cs0,
                   combined>>

\* the execution raises ZeroDivisionError: again with half the budget, or
\* return None, which the generator yields
ExecuteZeroDivision ==
    /\ Execute("ZeroDivisionError")
    /\ IF RetryAllowed(iters)
       THEN /\ iters' = iters \div 2
            /\ pc' = "execute"
            /\ UNCHANGED <<yielded, k>>
       ELSE /\ yielded' = Append(yielded, None)
            /\ Advance
            /\ iters' = iters
    /\ UNCHANGED <<probVars, ys, recorded, constraints, objective, argVars, objs, ctx, ctxNum,
                   pdI, pdNum, cntYs, ra, stages, solved, nConstruct, nDegen, ys0, cs0,
                   combined, result>>

\* faulty variant: every exception is taken for a breakdown and retried
ExecuteErrorRetried ==
    /\ Execute("Exception")
    /\ IF RetryAllowed(iters)
       THEN /\ iters' = iters \div 2
            /\ pc' = "execute"
            /\ UNCHANGED <<yielded, k>>
       ELSE /\ yielded' = Append(yielded, None)
            /\ Advance
            /\ iters' = iters
    /\ UNCHANGED <<probVars, ys, recorded, constraints, objective, argVars, objs, ctx, ctxNum,
                   pdI, pdNum, cntYs, ra, stages, solved, nConstruct, nDegen, ys0, cs0,
                   combined, result>>

\* the execution raises another exception: return None, which the
\* generator yields
ExecuteError ==
    /\ Execute("Exception")
    /\ yielded' = Append(yielded, None)
    /\ Advance
    /\ UNCHANGED <<probVars, ys, recorded, constraints, objective, argVars, objs, iters, ctx,
                   ctxNum, pdI, pdNum, cntYs, ra, stages, solved, nConstruct, nDegen, ys0,
                   cs0, combined, result>>

\* faulty variant: the solution is kept but the loop over the generator is not left
RationalizeGoesOn ==
    /\ pc = "rationalize"
    /\ \E r \in RationalizeOutcomes("rationalize", <<ys[Len(ys)]>>) :
         /\ ra' = r
         /\ yielded' = Append(yielded, None)
         /\ Advance
         /\ UNCHANGED <<stages, constraints, iters, budgets, lastExec>>
    /\ UNCHANGED <<probVars, ys, recorded, objective, argVars, objs, ctx, ctxNum, pdI, pdNum,
                   cntYs, solved, nConstruct, nDegen, ys0, cs0, combined, result>>

\* _nsolve_with_rationalization gets y: ra = self.rationalize(y).  With a
\* solution it returns, and the generator is closed where it stands (at
\* `yield y`, inside `with context:`); without, the generator goes on to
\* `yield None` and to the next objective.
Rationalize ==
    /\ pc = "rationalize"
    /\ \E r \in RationalizeOutcomes("rationalize", <<ys[Len(ys)]>>) :
         IF IsNone(r)
         THEN /\ yielded' = Append(yielded, None)
              /\ Advance
              /\ UNCHANGED <<ra, stages, constraints, iters, budgets, lastExec>>
         ELSE /\ ConsumerReturns(r)
              /\ constraints' = AbortContext(ctx, constraints, ctxNum)
    /\ UNCHANGED <<probVars, ys, recorded, objective, argVars, objs, ctx, ctxNum, pdI, pdNum,
                   cntYs, solved, nConstruct, nDegen, ys0, cs0, combined, result>>

\* the objective list is exhausted: `with context:` ends, the generator
\* stops and _nsolve_with_rationalization returns None
GeneratorExit ==
    /\ pc = "generator_exit"
    /\ constraints' = ExitContext(ctx, constraints, ctxNum)
    /\ objective' = IF ctx = "relax" THEN Obj("max", "tr", 1) ELSE objective
    /\ ConsumerReturns(None)
    /\ UNCHANGED <<probVars, ys, recorded, argVars, objs, ctx, ctxNum, pdI, pdNum, cntYs,
                   solved, nConstruct, nDegen, ys0, cs0, combined, result>>

\* -------------------------------------------------- _solve_partial_deflation
\* a return inside `with restore_constraints(sos):` : the block ends
\* normally, so the constraints added since its entry are removed
DeflationReturns(r) ==
    /\ constraints' = RemoveDownTo(constraints, pdNum)
    /\ StrategyReturns(r)

\* `with restore_constraints(sos):` is entered; deflation_sequence = range(n)
Deflation ==
    /\ pc = "deflation"
    /\ pdNum' = Len(constraints)
    /\ pdI' = 0
    /\ pc' = "deflation_step"
    /\ UNCHANGED <<probVars, objVars, argVars, objs, k, iters, ctx, ctxNum, cntYs, ra,
                   logVars, result>>

\* for i in deflation_sequence: the two objectives of step i are handed to
\* _nsolve_with_rationalization (without a context); after the last
\* coordinate the function ends, returning None
DeflationStep ==
    /\ pc = "deflation_step"
    /\ IF pdI >= dof
       THEN /\ DeflationReturns(None)
            /\ UNCHANGED <<objs, cntYs, ctx>>
       ELSE /\ objs' = DeflationObjectives(pdI)
            /\ cntYs' = Len(ys)
            /\ ctx' = "none"
            /\ pc' = "generator"
            /\ UNCHANGED <<constraints, ra, stages>>
    /\ UNCHANGED <<probVars, ys, recorded, objective, argVars, k, iters, ctxNum,
                   pdI, pdNum, budgets, yielded, solved, lastExec, nConstruct, nDegen,
                   ys0, cs0, combined, result>>

\* faulty variant: a step with a single candidate goes on to combine and fix
DeflationAfterGoesOn ==
    /\ pc = "deflation_after"
    /\ LET cnt_sol == Len(ys) - cntYs IN
       IF cnt_sol = 0 \/ ~IsNone(ra)
       THEN DeflationReturns(ra)
       ELSE /\ pc' = "deflation_combine"
            /\ UNCHANGED <<constraints, ra, stages>>
    /\ UNCHANGED <<probVars, ys, recorded, objective, argVars, objs, k, iters, ctx,
                   ctxNum, pdI, pdNum, cntYs, budgets, yielded, solved, lastExec, nConstruct,
                   nDegen, ys0, cs0, combined, result>>

\* cnt_sol = len(self._ys) - cnt_ys and the two early returns
DeflationAfter ==
    /\ pc = "deflation_after"
    /\ LET cnt_sol == Len(ys) - cntYs IN
       IF cnt_sol = 0 \/ ~IsNone(ra)
       THEN DeflationReturns(ra)
       ELSE IF cnt_sol < 2
       THEN DeflationReturns(None)
       ELSE /\ pc' = "deflation_combine"
            /\ UNCHANGED <<constraints, ra, stages>>
    /\ UNCHANGED <<probVars, ys, recorded, objective, argVars, objs, k, iters, ctx,
                   ctxNum, pdI, pdNum, cntYs, budgets, yielded, solved, lastExec, nConstruct,
                   nDegen, ys0, cs0, combined, result>>

\* faulty variant: only the two latest candidates are averaged
CombineLastTwo(h) == IF Len(h) <= 2 THEN h ELSE SubSeq(h, Len(h) - 1, Len(h))

\* the candidates rationalize_combine() averages: ys = self._ys
CombineArgument(h) == h

\* faulty variant: the coordinate is fixed twice
FixTwice(cs, i) == cs \o <<Con("fix", i), Con("fix", i)>>

\* sos.add_constraint(sos.variables['y'][i] == float(fix))
Fix(cs, i) == Append(cs, Con("fix", i))

\* faulty variant: the loop takes the same coordinate again
NextCoordinateSame(i) == i

\* for i in deflation_sequence, with deflation_sequence = range(n)
NextCoordinate(i) == i + 1

\* ra = self.rationalize_combine(); with no solution, y[i] == fix is added
\* and the next coordinate is taken
DeflationCombine ==
    /\ pc = "deflation_combine"
    /\ combined' = CombineArgument(ys)
    /\ \E r \in RationalizeOutcomes("combine", CombineArgument(ys)) :
         IF ~IsNone(r)
         THEN /\ DeflationReturns(r)
              /\ pdI' = pdI
         ELSE /\ constraints' = Fix(constraints, pdI)
              /\ pdI' = NextCoordinate(pdI)
              /\ pc' = "deflation_step"
              /\ UNCHANGED <<ra, stages>>
    /\ UNCHANGED <<probVars, ys, recorded, objective, argVars, objs, k, iters, ctx,
                   ctxNum, pdNum, cntYs, budgets, yielded, solved, lastExec, nConstruct,
                   nDegen, ys0, cs0, result>>

\* ------------------------------------------- _solve_wrapped, after the strategy
\* faulty variant: the fallback is taken whether or not the caller allowed it
FallbackAlways(a, h) == Len(h) > 0

\* if len(self._ys) > 0: if allow_numer:
FallbackAllowed(a, h) == a /\ Len(h) > 0

\* ra = self.rationalize_combine() over the whole history, then the choice
\* between the fallback, SDPRationalizeError and None
Combine ==
    /\ pc = "combine"
    /\ combined' = IF Len(ys) = 0 THEN <<>> ELSE CombineArgument(ys)
    /\ \E r \in (IF Len(ys) = 0 THEN {None}
                 ELSE RationalizeOutcomes("combine", CombineArgument(ys))) :
         /\ stages' = Append(stages, Stage("combine", r))
         /\ IF ~IsNone(r)
            THEN /\ ra' = r /\ pc' = "finish" /\ UNCHANGED result
            ELSE IF Len(ys) > 0
            THEN IF FallbackAllowed(allowNumer, ys)
                 THEN /\ pc' = "perturb" /\ UNCHANGED <<ra, result>>
                 ELSE /\ Raise("SDPRationalizeError") /\ UNCHANGED ra
            ELSE /\ ra' = None /\ pc' = "finish" /\ UNCHANGED result
    /\ UNCHANGED <<probVars, objVars, argVars, objs, k, iters, ctx, ctxNum, pdI, pdNum, cntYs,
                   budgets, yielded, solved, lastExec, nConstruct, nDegen, ys0, cs0>>

\* y = sp.Matrix(self._ys[-1]); rationalize_and_decompose(y, ..., perturb = True)
Perturb ==
    /\ pc = "perturb"
    /\ \E r \in RationalizeOutcomes("perturb", <<ys[Len(ys)]>>) :
         /\ ra' = r
         /\ stages' = Append(stages, Stage("perturb", r))
    /\ pc' = "finish"
    /\ UNCHANGED <<probVars, objVars, argVars, objs, k, iters, ctx, ctxNum, pdI, pdNum, cntYs,
                   budgets, yielded, solved, lastExec, nConstruct, nDegen, ys0, cs0,
                   combined, result>>

\* -------------------------------------------------------------------- Next
Next ==
    \/ \E m \in Methods, a \in BOOLEAN, o \in ObjectiveArgs, x \in 0..MaxExtra : Solve(m, a, o, x)
    \/ SolveDegenerated
    \/ SolveWrapped
    \/ GeneratorStart
    \/ SetObjective
    \/ ExecutePrimal
    \/ ExecuteInfeasible
    \/ ExecuteZeroDivision
    \/ ExecuteError
    \/ Rationalize
    \/ GeneratorExit
    \/ Deflation
    \/ DeflationStep
    \/ DeflationAfter
    \/ DeflationCombine
    \/ Combine
    \/ Perturb
    \/ SolveReturn

Spec == Init /\ [][Next]_vars

\* ================================================== the row-masking calls
\* The calls are made between two solve() calls.  Locals and the record of
\* the latest solve() call are dropped when another call of the object
\* starts.
FreshCall ==
    /\ method' = "trivial" /\ allowNumer' = FALSE /\ objectives' = NoObjectives /\ nExtra' = 0
    /\ pc' = "idle"
    /\ objs' = <<>> /\ k' = 0 /\ iters' = 0
    /\ ctx' = "none" /\ ctxNum' = 0 /\ pdI' = 0 /\ pdNum' = 0 /\ cntYs' = 0
    /\ ra' = None
    /\ stages' = <<>> /\ budgets' = <<>> /\ yielded' = <<>> /\ solved' = <<>>
    /\ lastExec' = "none"
    /\ nConstruct' = 0 /\ nDegen' = 0
    /\ ys0' = <<>> /\ cs0' = <<>> /\ combined' = <<>>
    /\ result' = NoResult

\* self.x0 + self.space @ x1
Shifted(v, sol) ==
    [r \in 1..Len(v.x0) |-> v.x0[r] + (IF v.space[r] = 0 THEN 0 ELSE sol.x1[v.space[r]])]

\* faulty variant: the sum is stored into the matrix self._x0 names
RebindInPlace(o, x0) == [o EXCEPT !.x0 = x0]

\* self.x0 += self.space @ x1, on sympy matrices: the sum is a new matrix
\* and self.x0 is bound to it; the matrix self._x0 names is not written
Rebind(o, x0) == o

\* faulty variant: the view the call found is put back when the call raises
LeftByErrorRestored(v0, found) == found

\* the exception of solve_undetermined_linear leaves set_masked_rows after
\* its first statements: the view stays the one they set
LeftByError(v0, found) == v0

\* faulty variant: the history the call found is kept
HistoryKept(h) == h

\* self._ys = [], among the first statements of set_masked_rows
ClearHistory(h) == <<>>

\* set_masked_rows(masks)
ApplyMask(masks) ==
    /\ pc = "idle"
    /\ ys' = ClearHistory(ys)
    /\ \E v0 \in {ResetView(orig, view)} :
       \E lines \in {Lines(masks, NotNoneKeys(orig, v0.masked_rows), v0.splits, 1)} :
       \E sol \in {SolveUndeterminedLinear(v0.x0, v0.space, v0.ncols, lines)} :
       \E log \in {[NoMaskLog EXCEPT !.op = "set_masked_rows", !.masks = masks,
                                     !.before = ~IsEmptyMask(view.masked_rows),
                                     !.hadYs = ys # <<>>]} :
           IF IsEmptyMask(masks)
           THEN \* return True
                /\ view' = v0
                /\ orig' = orig
                /\ maskLog' = log
           ELSE IF ~sol.ok
           THEN \* solve_undetermined_linear raises, and nothing catches
                /\ view' = LeftByError(v0, view)
                /\ orig' = orig
                /\ maskLog' = [log EXCEPT !.raised = TRUE]
           ELSE \E not_lines \in SetOrders((0..(Len(v0.x0) - 1)) \ Range(lines)) :
                /\ view' = Reduce(orig, v0, masks, sol, not_lines)
                /\ orig' = Rebind(orig, Shifted(v0, sol))
                /\ maskLog' = log
    /\ dof' = view'.ncols
    /\ keys' = NotNoneKeys(orig', view'.masked_rows)
    /\ FreshCall
    /\ UNCHANGED <<hasPicos, callVars, recorded, constraints, objective>>

\* pad_masked_rows(S, key), for a matrix S of the masked view
Unmask(key) ==
    /\ pc = "idle"
    /\ LET dims == MaskedDims(orig, view.masked_rows, FALSE)
           d    == (CHOOSE e \in Range(dims) : e.key = key).dim
           S    == GenericMatrix(d)
           mask == Get(view.masked_rows, key)
           log  == [NoMaskLog EXCEPT !.op = "pad_masked_rows", !.key = key, !.S = S]
       IN  IF mask = <<>>
           THEN maskLog' = [log EXCEPT !.Z = S]
           ELSE \E not_masked \in SetOrders((0..(d + Len(mask) - 1)) \ Range(mask)) :
                    maskLog' = [log EXCEPT !.Z = PadMaskedRows(S, mask, not_masked)]
    /\ FreshCall
    /\ UNCHANGED <<dof, keys, hasPicos, orig, view, callVars, objVars>>

\* S_from_y(y): the matrices of utils.S_from_y, one for each split, are
\* given to the keys: for key, S in zip(self._not_none_keys(), Ss)
Evaluate ==
    /\ pc = "idle"
    /\ LET nnkeys == NotNoneKeys(orig, view.masked_rows)
       IN  maskLog' = [NoMaskLog EXCEPT
                         !.op = "S_from_y",
                         !.pairs = [p \in 1..Min(Len(nnkeys), Len(view.splits)) |->
                                      [key |-> nnkeys[p], split |-> view.splits[p]]]]
    /\ FreshCall
    /\ UNCHANGED <<dof, keys, hasPicos, orig, view, callVars, objVars>>

\* the lists of rows of a block of size n a mask can hold
RowLists(n) == {Increasing(R) : R \in SUBSET (0..(n - 1))}

\* the dicts with at most the given key, holding a list of rows of a block
\* of size n
KeyMasks(key, n) == {EmptyMask} \cup {[x \in {key} |-> q] : q \in RowLists(n)}

RECURSIVE MasksFrom(_, _)
MasksFrom(o, i) ==
    IF i > Len(o.keys) THEN {EmptyMask}
    ELSE {m1 @@ m2 : m1 \in KeyMasks(o.keys[i], BlockSize(o.splits[i])),
                     m2 \in MasksFrom(o, i + 1)}

\* the masks given for a problem: lists of rows of its blocks
Masks(o) == MasksFrom(o, 1)

\* the sizes of the blocks: a major block, and possibly a minor one
SizeLists == {<<n>> : n \in 0..MaxSize} \cup {<<n, e>> : n \in 0..MaxSize, e \in 0..1}

MaskInit ==
    /\ \E sizes \in SizeLists, a \in 0..1, b \in 0..MaxDof : orig = Problem(sizes, a, b)
    /\ view = Unmasked(orig)
    /\ maskLog = NoMaskLog
    /\ NoCalls
    /\ dof = view.ncols
    /\ keys = NotNoneKeys(orig, view.masked_rows)
    /\ hasPicos = TRUE
    /\ ys = <<>>
    /\ recorded = None
    /\ constraints = <<>>
    /\ objective = NoObjective
    /\ method = "trivial" /\ allowNumer = FALSE /\ objectives = NoObjectives /\ nExtra = 0
    /\ pc = "idle"
    /\ objs = <<>> /\ k = 0 /\ iters = 0
    /\ ctx = "none" /\ ctxNum = 0 /\ pdI = 0 /\ pdNum = 0 /\ cntYs = 0
    /\ ra = None
    /\ stages = <<>> /\ budgets = <<>> /\ yielded = <<>> /\ solved = <<>>
    /\ lastExec = "none"
    /\ nConstruct = 0 /\ nDegen = 0
    /\ ys0 = <<>> /\ cs0 = <<>> /\ combined = <<>>
    /\ result = NoResult

MaskNext ==
    \/ \E masks \in Masks(orig) : ApplyMask(masks)
    \/ \E key \in Range(orig.keys) : Unmask(key)
    \/ Evaluate

\* a problem under set_masked_rows, pad_masked_rows and S_from_y
MaskSpec == MaskInit /\ [][MaskNext]_vars


\* the problem solve() and the masking calls are studied on together: a
\* major block of size 2 and a minor block of size 1
SolveMaskInit ==
    /\ orig = Problem(<<2, 1>>, 1, MaxDof)
    /\ view = Unmasked(orig)
    /\ maskLog = NoMaskLog
    /\ NoCalls
    /\ dof = view.ncols
    /\ keys = NotNoneKeys(orig, view.masked_rows)
    /\ hasPicos = TRUE
    /\ ys = <<>>
    /\ recorded = None
    /\ constraints = <<>>
    /\ objective = NoObjective
    /\ method = "trivial" /\ allowNumer = FALSE /\ objectives = NoObjectives /\ nExtra = 0
    /\ pc = "idle"
    /\ objs = <<>> /\ k = 0 /\ iters = 0
    /\ ctx = "none" /\ ctxNum = 0 /\ pdI = 0 /\ pdNum = 0 /\ cntYs = 0
    /\ ra = None
    /\ stages = <<>> /\ budgets = <<>> /\ yielded = <<>> /\ solved = <<>>
    /\ lastExec = "none"
    /\ nConstruct = 0 /\ nDegen = 0
    /\ ys0 = <<>> /\ cs0 = <<>> /\ combined = <<>>
    /\ result = NoResult

\* the masks that name one block at most
OneBlockMasks(o) == {m \in Masks(o) : Cardinality(DOMAIN m) <= 1}

\* solve() is called by the trivial strategy with the default objectives
SolveMaskNext ==
    \/ \E a \in BOOLEAN : Solve("trivial", a, NoObjectives, 0)
    \/ SolveDegenerated
    \/ SolveWrapped
    \/ GeneratorStart
    \/ SetObjective
    \/ ExecutePrimal
    \/ ExecuteInfeasible
    \/ ExecuteZeroDivision
    \/ ExecuteError
    \/ Rationalize
    \/ GeneratorExit
    \/ Combine
    \/ Perturb
    \/ SolveReturn
    \/ \E masks \in OneBlockMasks(orig) : ApplyMask(masks)
    \/ \E key \in Range(orig.keys) : Unmask(key)
    \/ Evaluate

\* a problem under solve() and the masking calls
SolveMaskSpec == SolveMaskInit /\ [][SolveMaskNext]_vars

\* ================================================================== SDPSOS
\* SDPSOS (sdpsos.py) makes one SOSProblem and goes through the entries of
\* minor.  An attempt is SOSProblem.solve: construct_problem makes a new
\* SDPProblem, and its solve() is the one modelled above.

\* the argument minor: a list of booleans, or a single one
MinorList(items) == [single |-> FALSE, value |-> FALSE, list |-> items]
MinorSingle(b) == [single |-> TRUE, value |-> b, list |-> <<>>]

\* minor: Union[List[bool], bool] = [False, True]
DefaultMinor == MinorList(<<FALSE, TRUE>>)

\* if isinstance(minor, (bool, int)): minor = [minor]
AsList(minor) == IF minor.single THEN <<minor.value>> ELSE minor.list

\* faulty variant: the loop is left after an attempt that failed
NextAttemptGivesUp(c, outcome) ==
    [c EXCEPT !.log = Append(c.log, outcome), !.at = Len(c.minor) + 1, !.pc = "loop"]

\* the attempt in hand has failed (`except Exception`, or `success` false):
\* the loop takes the next entry of minor
NextAttempt(c, outcome) ==
    [c EXCEPT !.log = Append(c.log, outcome), !.at = c.at + 1, !.pc = "loop"]

\* SDPSOS(poly, minor, method = m, allow_numer = a), up to its loop; valid
\* tells whether the degree and the domain of poly pass the two checks
SDPSOS(minor, m, a, valid) ==
    /\ sdpsos.pc = "idle" /\ pc = "idle"
    /\ sdpsos' = IF valid
                 THEN [NoSdpsos EXCEPT !.pc = "loop", !.minor = AsList(minor), !.at = 1,
                                       !.method = m, !.allow_numer = a]
                 ELSE [NoSdpsos EXCEPT !.pc = "done", !.out = "None"]
    /\ UNCHANGED <<dof, keys, hasPicos, orig, view, maskLog, sumOfSquare, gui,
                   objVars, argVars, ctlVars, logVars, result>>

\* for minor_ in minor: ... return None
SdpsosLoop ==
    /\ sdpsos.pc = "loop"
    /\ sdpsos' = IF sdpsos.at > Len(sdpsos.minor)
                 THEN [sdpsos EXCEPT !.pc = "done", !.out = "None"]
                 ELSE [sdpsos EXCEPT !.pc = "construct"]
    /\ UNCHANGED <<dof, keys, hasPicos, orig, view, maskLog, sumOfSquare, gui,
                   objVars, argVars, ctlVars, logVars, result>>

\* SOSProblem.solve: construct_problem(minor = minor_) raises, which the
\* bare except turns into `return False`
ConstructFails ==
    /\ sdpsos.pc = "construct"
    /\ sdpsos' = NextAttempt(sdpsos, "no problem")
    /\ UNCHANGED <<dof, keys, hasPicos, orig, view, maskLog, sumOfSquare, gui,
                   objVars, argVars, ctlVars, logVars, result>>

\* SOSProblem.solve: construct_problem(minor = minor_) makes a new
\* SDPProblem; the minor block is there only with minor_, and only if its
\* Q is not empty
ConstructProblem ==
    /\ sdpsos.pc = "construct"
    /\ sdpsos' = [sdpsos EXCEPT !.pc = "solve"]
    /\ dof' \in 0..MaxDof
    /\ keys' \in IF sdpsos.minor[sdpsos.at] THEN KeyLists ELSE {<<"major">>}
    /\ orig' = DefaultProblem(dof', keys')
    /\ view' = Unmasked(orig')
    /\ maskLog' = NoMaskLog
    /\ ys' = <<>> /\ recorded' = None /\ constraints' = <<>> /\ objective' = NoObjective
    /\ FreshCall
    /\ UNCHANGED <<hasPicos, sumOfSquare, gui>>

\* SOSProblem.solve: sos_result = self.sdp.solve(method, allow_numer)
SdpSolve ==
    /\ sdpsos.pc = "solve" /\ result.status = "none"
    /\ Solve(sdpsos.method, sdpsos.allow_numer, NoObjectives, 0)

\* SOSProblem.solve after self.sdp.solve, and the try block of SDPSOS: an
\* error of solve() goes through SOSProblem.solve to `except Exception`; a
\* result without success gives False; with success compute_M is taken to
\* succeed and SOSProblem.solve gives True
AfterSolve ==
    /\ sdpsos.pc = "solve" /\ pc = "idle" /\ result.status # "none"
    /\ sdpsos' = IF result.status = "raised" THEN NextAttempt(sdpsos, "raised")
                 ELSE IF ~result.value.success THEN NextAttempt(sdpsos, "failed")
                 ELSE [sdpsos EXCEPT !.pc = "as_solution"]
    /\ UNCHANGED <<dof, keys, hasPicos, orig, view, maskLog, sumOfSquare, gui,
                   objVars, argVars, ctlVars, logVars, result>>

\* return sdp_problem.as_solution(...): it returns the solution, or it
\* raises, inside the try block
AsSolution ==
    /\ sdpsos.pc = "as_solution"
    /\ \/ sdpsos' = [sdpsos EXCEPT !.pc = "done", !.out = "solution",
                                    !.log = Append(sdpsos.log, "success")]
       \/ sdpsos' = NextAttempt(sdpsos, "raised")
    /\ UNCHANGED <<dof, keys, hasPicos, orig, view, maskLog, sumOfSquare, gui,
                   objVars, argVars, ctlVars, logVars, result>>

\* the values of minor the calls are made with
MinorArgs ==
    {DefaultMinor, MinorList(<<TRUE, FALSE>>), MinorList(<<>>), MinorSingle(TRUE)}

SdpsosInit ==
    /\ dof = 0
    /\ keys = <<"major">>
    /\ hasPicos \in BOOLEAN
    /\ orig = DefaultProblem(dof, keys)
    /\ view = Unmasked(orig)
    /\ maskLog = NoMaskLog
    /\ NoCalls
    /\ ys = <<>>
    /\ recorded = None
    /\ constraints = <<>>
    /\ objective = NoObjective
    /\ method = "trivial" /\ allowNumer = FALSE /\ objectives = NoObjectives /\ nExtra = 0
    /\ pc = "idle"
    /\ objs = <<>> /\ k = 0 /\ iters = 0
    /\ ctx = "none" /\ ctxNum = 0 /\ pdI = 0 /\ pdNum = 0 /\ cntYs = 0
    /\ ra = None
    /\ stages = <<>> /\ budgets = <<>> /\ yielded = <<>> /\ solved = <<>>
    /\ lastExec = "none"
    /\ nConstruct = 0 /\ nDegen = 0
    /\ ys0 = <<>> /\ cs0 = <<>> /\ combined = <<>>
    /\ result = NoResult

\* SDPSOS is called with its default method
SdpsosNext ==
    \/ \E minor \in MinorArgs, a \in BOOLEAN, valid \in BOOLEAN :
          SDPSOS(minor, "trivial", a, valid)
    \/ SdpsosLoop
    \/ ConstructFails
    \/ ConstructProblem
    \/ SdpSolve
    \/ SolveDegenerated
    \/ SolveWrapped
    \/ GeneratorStart
    \/ SetObjective
    \/ ExecutePrimal
    \/ ExecuteInfeasible
    \/ ExecuteZeroDivision
    \/ ExecuteError
    \/ Rationalize
    \/ GeneratorExit
    \/ Combine
    \/ Perturb
    \/ SolveReturn
    \/ AfterSolve
    \/ AsSolution

\* one call of SDPSOS
SdpsosSpec == SdpsosInit /\ [][SdpsosNext]_vars

\* ============================================================ sum_of_square
\* sum_of_square (sum_of_square.py) calls the solvers its method_order
\* names.  The solvers are external: a call returns None, returns a
\* solution or raises.

\* the keys of NAME_TO_METHOD
NAME_TO_METHOD == {"LinearSOS", "StructuralSOS", "SymmetricSOS", "SDPSOS"}

METHOD_ORDER == <<"StructuralSOS", "LinearSOS", "SymmetricSOS", "SDPSOS">>

\* the names a caller may put in method_order: those of the solvers, and
\* one that NAME_TO_METHOD does not hold
Names == NAME_TO_METHOD \cup {"OtherSOS"}

RECURSIVE Lists(_, _)
\* the lists over S of length n at most
Lists(S, n) ==
    IF n = 0 THEN {<<>>}
    ELSE Lists(S, n - 1) \cup {Append(q, x) : q \in {l \in Lists(S, n - 1) : Len(l) = n - 1}, x \in S}

\* the argument method_order: None, or a list of names
MethodOrders ==
    {[none |-> TRUE, list |-> <<>>]} \cup {[none |-> FALSE, list |-> q] : q \in Lists(Names, MaxOrder)}

\* method_order: List = METHOD_ORDER; if method_order is None: method_order = METHOD_ORDER
MethodOrder(arg) == IF arg.none THEN METHOD_ORDER ELSE arg.list

\* faulty variant: whatever the solver returned is returned
FoundAlways(solution) == TRUE

\* if solution is not None
Found(solution) == solution # "None"

\* sum_of_square(poly, method_order = arg), up to its loop; valid tells
\* whether poly passes the three assertions
SumOfSquare(arg, valid) ==
    /\ sumOfSquare.pc = "idle"
    /\ sumOfSquare' =
         IF valid
         THEN [NoSumOfSquare EXCEPT !.pc = "loop", !.given = ~arg.none,
                                    !.method_order = MethodOrder(arg), !.at = 1]
         ELSE [NoSumOfSquare EXCEPT !.pc = "done", !.given = ~arg.none,
                                    !.method_order = MethodOrder(arg),
                                    !.out = "AssertionError"]
    /\ UNCHANGED <<dof, keys, hasPicos, orig, view, maskLog, sdpsos, gui,
                   objVars, argVars, ctlVars, logVars, result>>

\* for method in method_order: method = NAME_TO_METHOD[method];
\* solution = method(poly, ...); if solution is not None: return solution
CallMethod ==
    /\ sumOfSquare.pc = "loop"
    /\ sumOfSquare.at <= Len(sumOfSquare.method_order)
    /\ LET name == sumOfSquare.method_order[sumOfSquare.at] IN
       IF name \notin NAME_TO_METHOD
       THEN sumOfSquare' = [sumOfSquare EXCEPT !.pc = "done", !.out = "KeyError"]
       ELSE \E solution \in {"None", "solution", "raised"} :
              sumOfSquare' =
                IF solution = "raised"
                THEN [sumOfSquare EXCEPT
                        !.called = Append(sumOfSquare.called, [name |-> name, out |-> solution]),
                        !.pc = "done", !.out = "raised"]
                ELSE IF Found(solution)
                THEN [sumOfSquare EXCEPT
                        !.called = Append(sumOfSquare.called, [name |-> name, out |-> solution]),
                        !.pc = "done", !.out = solution]
                ELSE [sumOfSquare EXCEPT
                        !.called = Append(sumOfSquare.called, [name |-> name, out |-> solution]),
                        !.at = sumOfSquare.at + 1]
    /\ UNCHANGED <<dof, keys, hasPicos, orig, view, maskLog, sdpsos, gui,
                   objVars, argVars, ctlVars, logVars, result>>

\* the loop has ended: return None
ReturnNone ==
    /\ sumOfSquare.pc = "loop"
    /\ sumOfSquare.at > Len(sumOfSquare.method_order)
    /\ sumOfSquare' = [sumOfSquare EXCEPT !.pc = "done", !.out = "None"]
    /\ UNCHANGED <<dof, keys, hasPicos, orig, view, maskLog, sdpsos, gui,
                   objVars, argVars, ctlVars, logVars, result>>

SumOfSquareNext ==
    \/ \E arg \in MethodOrders, valid \in BOOLEAN : SumOfSquare(arg, valid)
    \/ CallMethod
    \/ ReturnNone

\* no SDPProblem is in use: the variables of the other layers stay as they are
CallerInit == Init /\ dof = 0 /\ keys = <<"major">> /\ hasPicos

\* one call of sum_of_square
SumOfSquareSpec == CallerInit /\ [][SumOfSquareNext]_vars

\* ================================================================= GUI_SOS
\* SOS_Manager.GUI_SOS (sos_manager.py).  setPoly, the root and tangent
\* search, SOS_Special, linprog, exact_coefficient and the rendering are
\* external: setPoly fails or gives a polynomial of some degree, cyclic or
\* not; at each degree the structural method or the linear program
\* succeeds or not; the others are taken to return.

\* the values of self.updeg a user sets: the default, and one above deglim
UpDegs == {updeg, deglim + MaxOver}

\* faulty variant: updeg is not capped
CapNone(u) == u

\* self.updeg = min(self.updeg, self.deglim)
Cap(u) == Min(u, deglim)

\* the degrees up_degree(poly, n, updeg) yields, in increasing order
\* (UpDegree of the script sum_of_square.py: range(n, updeg + 1))
up_degree(n, u) == n..u

\* GUI_stateUpdate(stage), and `self.stage = stage`
StateUpdate(g, stage) == [g EXCEPT !.stage = stage]

\* return '', from within GUI_SOS
ReturnEmpty(g) == [g EXCEPT !.pc = "done", !.out = "empty"]

\* the variables GUI_SOS leaves alone
NotGui == <<dof, keys, hasPicos, orig, view, maskLog, sdpsos, sumOfSquare,
            objVars, argVars, ctlVars, logVars, result>>

\* self.updeg is set by the user, between two calls
SetUpdeg(u) ==
    /\ gui.pc \in {"idle", "done"}
    /\ gui.updeg # u
    /\ gui' = [gui EXCEPT !.updeg = u]
    /\ UNCHANGED NotGui

\* GUI_SOS(txt, skip_setpoly, use_structural_method): self.stage = 0
GUI_SOS(skip_setpoly, use_structural_method) ==
    /\ gui.pc \in {"idle", "done"}
    /\ gui' = [gui EXCEPT !.stage = 0, !.out = "none", !.n = 0,
                          !.use_structural_method = use_structural_method,
                          !.pc = IF skip_setpoly THEN "check" ELSE "setPoly"]
    /\ UNCHANGED NotGui

\* if (not skip_setpoly) and (not self.setPoly(txt)): setPoly fails, or it
\* sets the polynomial, its degree and whether it is cyclic
SetPoly ==
    /\ gui.pc = "setPoly"
    /\ \/ gui' = ReturnEmpty(StateUpdate(gui, 70))
       \/ \E d \in 0..deglim, cyc \in BOOLEAN :
             gui' = [gui EXCEPT !.pc = "check", !.deg = d, !.poly_iscyc = cyc]
    /\ UNCHANGED NotGui

\* origin_deg = self.deg and the check of the degree and of the symmetry
CheckPoly ==
    /\ gui.pc = "check"
    /\ gui' = IF gui.deg <= 1 \/ gui.deg >= deglim \/ ~gui.poly_iscyc
              THEN ReturnEmpty(StateUpdate(gui, 70))
              ELSE [StateUpdate(gui, 10) EXCEPT !.pc = "roots", !.updeg = Cap(gui.updeg)]
    /\ UNCHANGED NotGui

\* GUI_findRoot(); GUI_stateUpdate(20)
FindRoot ==
    /\ gui.pc = "roots"
    /\ gui' = [StateUpdate(gui, 20) EXCEPT !.pc = "tangents"]
    /\ UNCHANGED NotGui

\* GUI_getTangents(); GUI_stateUpdate(30); the loop over up_degree starts
\* at the degree of the polynomial
GetTangents ==
    /\ gui.pc = "tangents"
    /\ gui' = [StateUpdate(gui, 30) EXCEPT !.pc = "degree", !.n = gui.deg]
    /\ UNCHANGED NotGui

\* for multiplier, poly, n in up_degree(self.poly, origin_deg, self.updeg):
\* one pass of the body for the degree n, or the else branch of the loop
TryDegree ==
    /\ gui.pc = "degree"
    /\ IF gui.n \notin up_degree(gui.deg, gui.updeg)
       THEN gui' = ReturnEmpty(StateUpdate(gui, 70))
       ELSE \/ \* SOS_Special gives a result: break
               /\ gui.use_structural_method
               /\ gui' = [gui EXCEPT !.pc = "result"]
            \/ \* the linear program succeeds: self.stage = 50; break
               gui' = [StateUpdate(gui, 50) EXCEPT !.pc = "result"]
            \/ \* GUI_stateUpdate(30 + n), and the next degree
               gui' = [StateUpdate(gui, 30 + gui.n) EXCEPT !.n = gui.n + 1]
    /\ UNCHANGED NotGui

\* exact_coefficient, GUI_prettyResult, self.stage = 50
PrettyResult ==
    /\ gui.pc = "result"
    /\ gui' = IF gui.GUI THEN [StateUpdate(gui, 50) EXCEPT !.pc = "render"]
              ELSE [StateUpdate(gui, 50) EXCEPT !.pc = "done", !.out = "result"]
    /\ UNCHANGED NotGui

\* with a GUI: GUI_stateUpdate(50); _render_LaTeX; GUI_stateUpdate(60)
Render ==
    /\ gui.pc = "render"
    /\ gui' = [StateUpdate(gui, 60) EXCEPT !.pc = "done", !.out = "result"]
    /\ UNCHANGED NotGui

GuiInit ==
    /\ SolverInit /\ dof = 0 /\ keys = <<"major">> /\ hasPicos
    /\ sdpsos = NoSdpsos /\ sumOfSquare = NoSumOfSquare
    /\ \E GUI \in BOOLEAN : gui = SOS_Manager(GUI)

GuiNext ==
    \/ \E u \in UpDegs : SetUpdeg(u)
    \/ \E skip \in BOOLEAN, structural \in BOOLEAN : GUI_SOS(skip, structural)
    \/ SetPoly
    \/ CheckPoly
    \/ FindRoot
    \/ GetTangents
    \/ TryDegree
    \/ PrettyResult
    \/ Render

\* a SOS_Manager under calls of GUI_SOS
GuiSpec == GuiInit /\ [][GuiNext]_vars

\* ------------------------------------------------------------------- types
TypeOK ==
    /\ dof \in 0..MaxDof
    /\ pc \in {"idle", "degenerated", "wrapped", "generator", "set_objective", "execute",
               "rationalize", "generator_exit", "deflation", "deflation_step",
               "deflation_after", "deflation_combine", "combine", "perturb", "finish"}
    /\ result.status \in {"none", "returned", "raised"}
    /\ \A j \in 1..Len(ys) : ys[j] = j

\* ================================================================== claims
Last(q) == q[Len(q)]

\* a solve() call has ended and what it gave its caller is in `result`
Ended == pc = "idle" /\ result.status # "none"

\* the call went through _construct_sos and _solve_wrapped
Numeric == nConstruct = 1

ValidMethod == Lower(method) \in {"trivial", "relax", "partial deflation"}

\* the generator is running (between its start and its end)
InGenerator == pc \in {"set_objective", "execute", "rationalize", "generator_exit"}

\* ---------------------------------------------------------------------- C1
\* C1 (as claimed): with allow_numeric false, when the backend produced a
\* candidate and nothing rationalized, solve() returns a result with
\* success = False and raises no error.
C1_Claimed ==
    (Ended /\ Numeric /\ ValidMethod /\ ~allowNumer /\ Len(ys) > Len(ys0)
        /\ result.error # "SDPInfeasibleError" /\ ~result.value.success)
    => result.status = "returned"

\* C1 (amended): with allow_numeric false, when strategy and combine have
\* both failed, solve() raises SDPRationalizeError if the history holds a
\* candidate, and returns a result with success = False only if the history
\* is empty; SDPRationalizeError is raised in no other case.
C1_Exhaustion ==
    /\ (Ended /\ Numeric /\ ValidMethod /\ ~allowNumer
            /\ result.error # "SDPInfeasibleError" /\ ~result.value.success)
       => /\ stages = <<[name |-> "strategy", out |-> "None"],
                        [name |-> "combine", out |-> "None"]>>
          /\ IF Len(ys) > 0
             THEN result = Raised("SDPRationalizeError")
             ELSE result = Returned(None)
    /\ (Ended /\ result.error = "SDPRationalizeError")
       => ~allowNumer /\ Len(ys) > 0 /\ ValidMethod

C1_Witness ==
    /\ Ended /\ ~allowNumer /\ Len(ys) > Len(ys0)
    /\ result = Raised("SDPRationalizeError")
    /\ Lower(method) = "partial deflation"

\* ---------------------------------------------------------------------- C2
StageNames == <<"strategy", "combine", "perturb">>

\* C2: the stages of _solve_wrapped run in the order strategy, combine,
\* perturbed fallback; a stage runs only if every earlier one returned no
\* solution, the fallback only with allow_numeric and a non-empty history
\* and on the latest entry of the history; the solution of a stage is what
\* solve() returns.
C2_StageOrder ==
    /\ Len(stages) <= 3
    /\ \A j \in 1..Len(stages) : stages[j].name = StageNames[j]
    /\ \A j \in 1..(Len(stages) - 1) : stages[j].out = "None"
    /\ pc = "combine" => Len(stages) = 1 /\ IsNone(ra)
    /\ pc = "perturb" => Len(stages) = 2 /\ IsNone(ra) /\ allowNumer /\ Len(ys) > 0
    /\ Len(stages) = 3 => allowNumer /\ Len(ys) > 0
    /\ (Len(stages) = 3 /\ ~IsNone(ra)) => ra = Decomp("perturb", <<Last(ys)>>)
    /\ (Len(stages) = 2 /\ ~IsNone(ra)) => ra = Decomp("combine", ys)
    /\ (Len(stages) = 1 /\ ~IsNone(ra)) => ra.t \in {"rationalize", "combine"}
    /\ (Ended /\ Numeric /\ result.status = "returned")
       => /\ stages # <<>>
          /\ result.value = SDPResult(ra)
          /\ result.value.success <=> Last(stages).out = "solution"

C2_Witness ==
    /\ Ended /\ Len(stages) = 3 /\ result.value.success
    /\ Len(ys) >= 2

\* ---------------------------------------------------------------------- C3
\* C3: with dof = 0, solve() (any method value, any allow_numeric) builds
\* no numeric program, executes nothing, sets no objective, runs
\* _solve_degenerated once, leaves the history as it was, and succeeds
\* exactly when that rationalization returned a solution.
C3_Degenerated ==
    dof = 0 =>
       /\ nConstruct = 0 /\ solved = <<>> /\ budgets = <<>> /\ lastExec = "none"
       /\ stages = <<>> /\ constraints = <<>>
       /\ ys = ys0
       /\ pc \in {"idle", "degenerated", "finish"}
       /\ pc = "degenerated" => nDegen = 0
       /\ pc = "finish" => nDegen = 1
       /\ Ended => /\ nDegen = 1
                   /\ result.status = "returned"
                   /\ result.value.success <=> ~IsNone(ra)
                   /\ ~IsNone(ra) => ra = Decomp("degenerated", <<>>)

C3_Witness ==
    /\ dof = 0 /\ Ended /\ result.value.success
    /\ method = "newton" /\ allowNumer

\* ---------------------------------------------------------------------- C4
\* C4: when an execution returns a solution without a primal for y (the
\* backend found no feasible point), the call ends at once with
\* SDPInfeasibleError: nothing is yielded for the objective, nothing is
\* appended to the history, and no objective is set afterwards.
C4_InfeasibleAborts ==
    /\ [](lastExec = "noprimal" => pc = "idle" /\ result = Raised("SDPInfeasibleError"))
    /\ [][(lastExec' = "noprimal" /\ pc = "execute")
            => /\ ys' = ys /\ yielded' = yielded
               /\ solved' = solved /\ objective' = objective]_vars

C4_Witness ==
    /\ lastExec = "noprimal" /\ Ended
    /\ Len(ys) > Len(ys0)
    /\ k < Len(objs)

\* ---------------------------------------------------------------------- C5
\* the fields of a result other than the solution it carries
ResultFlags(v) == [f \in (DOMAIN v) \ {"y", "S", "decompositions"} |-> v[f]]

\* C5 (as claimed): a result that carries the perturbed fallback is marked
\* inexact: a field of it tells it from a result that carries an exact
\* solution.
C5_Claimed ==
    (Ended /\ result.status = "returned" /\ ra.t = "perturb")
    => ResultFlags(result.value) # ResultFlags(SDPResult(Decomp("rationalize", <<1>>)))

\* C5 (amended): a result that carries the perturbed fallback is built as
\* every successful result is: y, S and decompositions set, success = True,
\* and no other field, so nothing in it marks it inexact.
C5_Unmarked ==
    (Ended /\ result.status = "returned" /\ ~IsNone(ra))
    => /\ DOMAIN result.value = {"y", "S", "decompositions", "success"}
       /\ ResultFlags(result.value) = [success |-> TRUE]
       /\ result.value.y = ra /\ result.value.S = ra /\ result.value.decompositions = ra

C5_Witness ==
    /\ Ended /\ result.status = "returned"
    /\ Len(stages) = 3 /\ Len(ys) > 0
    /\ ra = Decomp("perturb", <<Last(ys)>>)
    /\ result.value.success

\* ---------------------------------------------------------------------- C6
BackOff == <<50, 25, 12>>

\* C6: the budgets of the executions for one objective are a prefix of
\* 50, 25, 12: at most three executions, none below the floor 10; when all
\* three break down the generator yields None for the objective and goes
\* on, and no error is raised.
C6_BackOff ==
    /\ Len(budgets) <= 3
    /\ \A j \in 1..Len(budgets) : budgets[j] = BackOff[j] /\ budgets[j] >= min_iters
    /\ pc = "execute" => Len(budgets) < 3 /\ iters = BackOff[Len(budgets) + 1]
    /\ (lastExec = "ZeroDivisionError" /\ pc # "execute")
       => /\ budgets = BackOff
          /\ yielded # <<>> /\ Last(yielded) = None
          /\ result.status = "none"
          /\ pc \in {"set_objective", "generator_exit"}

C6_Witness ==
    /\ budgets = BackOff /\ lastExec = "ZeroDivisionError"
    /\ pc = "set_objective" /\ yielded # <<>> /\ Last(yielded) = None

\* ---------------------------------------------------------------------- C7
\* C7 (as claimed): the generator yields one item per objective: after j
\* objectives it has yielded j items.
C7_Claimed ==
    /\ pc \in {"set_objective", "generator_exit"} => Len(yielded) = k - 1
    /\ pc = "rationalize" => Len(yielded) = k
    /\ pc = "generator_exit" => Len(yielded) = Len(objs)

\* ---------------------------------------------------------------------- C8
\* the length of the history when the running generator started
GenBase == IF Lower(method) = "partial deflation" THEN cntYs ELSE Len(ys0)

\* the objectives the running generator has set so far
GenSet == IF pc \in {"execute", "rationalize"} THEN k ELSE k - 1

YieldedY == {j \in 1..Len(yielded) : yielded[j].t = "y"}

\* C8: objectives are set in list order; the history only grows, by one
\* entry for each execution that returns a primal y, appended before that
\* y is yielded and rationalized; an objective whose solve failed adds
\* nothing.
C8_History ==
    /\ [][\/ ys' = ys
          \/ /\ pc = "execute" /\ pc' = "rationalize" /\ lastExec' = "primal"
             /\ Len(ys') = Len(ys) + 1
             /\ SubSeq(ys', 1, Len(ys)) = ys
             /\ yielded' = Append(yielded, Candidate(Last(ys')))]_vars
    /\ [][solved' # solved
            => \/ pc = "idle"
               \/ /\ pc = "set_objective"
                  /\ solved' = Append(solved, objs[k])
                  /\ objective' = objs[k]]_vars
    /\ [](InGenerator
            => /\ Len(solved) >= GenSet
               /\ \A j \in 1..GenSet : solved[Len(solved) - GenSet + j] = objs[j]
               /\ Cardinality(YieldedY) = Len(ys) - GenBase
               /\ {yielded[j].src[1] : j \in YieldedY} = {ys[i] : i \in (GenBase + 1)..Len(ys)}
               /\ Cardinality(YieldedY) <= GenSet
               /\ pc = "rationalize" => Last(yielded) = Candidate(Last(ys)))

C8_Witness ==
    /\ pc = "rationalize" /\ k = 3
    /\ Len(ys0) = 1 /\ Len(ys) = 3
    /\ \E j \in 1..Len(yielded) : j \notin YieldedY /\ j - 1 \notin YieldedY /\ j > 1

\* ---------------------------------------------------------------------- C9
\* C9 (as claimed): when the trivial strategy was given extra constraints,
\* the constraint list after the call is the list before the strategy,
\* however the call ended.
C9_Claimed ==
    (Ended /\ Numeric /\ Lower(method) = "trivial" /\ nExtra >= 1)
    => constraints = cs0

\* --------------------------------------------------------------------- C10
\* C10 (as claimed): after partial deflation the constraint list is the
\* list before the strategy, however the call ended.
C10_Claimed ==
    (Ended /\ Numeric /\ Lower(method) = "partial deflation")
    => constraints = cs0

\* ---------------------------------------------------- partial deflation
PartialDeflation == Numeric /\ Lower(method) = "partial deflation"

\* the loop of _solve_partial_deflation is running
Deflating ==
    /\ PartialDeflation
    /\ pc \in {"deflation_step", "generator", "set_objective", "execute", "rationalize",
               "generator_exit", "deflation_after", "deflation_combine"}

\* the strategy has ended: _solve_wrapped (or the caller) has the control
AfterStrategy == pc \in {"combine", "perturb", "finish", "idle"}

\* the constraints y[0] == fix, ..., y[n-1] == fix
FixedSoFar(n) == [j \in 1..n |-> Con("fix", j - 1)]

FixConstraints(cs) == {j \in 1..Len(cs) : cs[j][1] = "fix"}

\* the freedom the fix constraints leave
Residual == dof - Cardinality(FixConstraints(constraints))

\* --------------------------------------------------------------------- C11
\* C11: in step i of partial deflation the objectives are max y[i], then
\* min y[i], the second set only when the first gave no certificate; a
\* candidate that rationalizes ends the strategy with its certificate;
\* otherwise, with fewer than two candidates, the strategy returns None
\* without fixing y[i] and without taking another coordinate.
C11_DeflationStep ==
    /\ [](Deflating /\ pc # "deflation_step" => objs = DeflationObjectives(pdI))
    /\ [](Deflating /\ pc = "set_objective" /\ k = 2
            => yielded # <<>> /\ IsNone(Last(yielded)) /\ solved # <<>>
               /\ Last(solved) = Obj("max", "y", pdI))
    /\ [](PartialDeflation /\ stages # <<>> => AfterStrategy)
    /\ [][pc = "deflation_after" =>
            LET cnt_sol == Len(ys) - cntYs IN
            IF ~IsNone(ra)
            THEN /\ cnt_sol \in {1, 2}
                 /\ ra = Decomp("rationalize", <<Last(ys)>>)
                 /\ pc' = "finish" /\ ra' = ra
                 /\ stages' = <<[name |-> "strategy", out |-> "solution"]>>
            ELSE IF cnt_sol < 2
            THEN /\ pc' = "combine" /\ ra' = None
                 /\ stages' = <<[name |-> "strategy", out |-> "None"]>>
                 /\ pdI' = pdI /\ solved' = solved
                 /\ FixConstraints(constraints') = {}
            ELSE /\ cnt_sol = 2
                 /\ pc' = "deflation_combine"]_vars

C11_Witness ==
    /\ PartialDeflation /\ pc = "combine"
    /\ dof = 2 /\ pdI = 1 /\ Len(ys) - cntYs = 1
    /\ constraints = cs0

\* --------------------------------------------------------------------- C12
\* C12 (as claimed): in a step where neither candidate rationalizes,
\* combine averages exactly the two candidates of the step.
C12_Claimed ==
    [][pc = "deflation_combine" => combined' = SubSeq(ys, cntYs + 1, Len(ys))]_vars

\* C12 (amended): in a step where neither candidate rationalizes, combine
\* averages the whole history: the candidates of earlier solve() calls and
\* of earlier steps, followed by the two candidates of the step; its
\* solution, if any, is what the strategy returns.
C12_WholeHistory ==
    [][pc = "deflation_combine"
        => /\ combined' = ys
           /\ Len(ys) = cntYs + 2
           /\ cntYs = Len(ys0) + 2 * pdI
           /\ SubSeq(combined', 1, Len(ys0)) = ys0
           /\ pc' = "finish" => ra' = Decomp("combine", ys)]_vars

C12_Witness ==
    /\ PartialDeflation /\ pc = "deflation_step"
    /\ pdI = 2 /\ Len(ys0) = 1
    /\ combined = ys /\ Len(combined) = 5

StepRank ==
    CASE pc = "deflation_step"    -> 100
      [] pc = "generator"         -> 99
      [] pc = "set_objective"     -> 89 - 30 * (k - 1)
      [] pc = "execute"           -> 88 - 30 * (k - 1) - Len(budgets)
      [] pc = "rationalize"       -> 81 - 30 * (k - 1)
      [] pc = "generator_exit"    -> 10
      [] pc = "deflation_after"   -> 5
      [] pc = "deflation_combine" -> 2
      [] OTHER                    -> 0

\* a bound on the steps partial deflation has still to take
Measure == IF pc = "deflation" THEN 200 * (dof + 1) ELSE 200 * (dof - pdI) + StepRank

C20_Claimed ==
    (Ended /\ ~ValidMethod)
    => /\ result.status = "raised"
       /\ nDegen = 0 /\ solved = <<>> /\ budgets = <<>>
       /\ ys = ys0

\* ------------------------------------------------------------ row masking
\* the step is a call of set_masked_rows (with the masks maskLog'.masks)
StepApplyMask == pc = "idle" /\ pc' = "idle" /\ maskLog'.op = "set_masked_rows"

\* the views set_masked_rows can give for the unmasked values o and masks
\* that its system admits
MaskedViews(o, masks) ==
    IF IsEmptyMask(masks) THEN {Unmasked(o)}
    ELSE LET lines == Lines(masks, NotNoneKeys(o, EmptyMask), o.splits, 1)
             sol   == SolveUndeterminedLinear(o.x0, o.space, o.ncols, lines)
         IN  {Reduce(o, Unmasked(o), masks, sol, not_lines) :
                 not_lines \in SetOrders((0..(Len(o.x0) - 1)) \ Range(lines))}

\* --------------------------------------------------------------------- C15
\* C15: the masked view is always one that the unmasked values and the
\* masked rows in effect give, whatever masks were given before; a call
\* with an empty mask, or with a mask whose lists are all empty, gives the
\* unmasked view with no masked rows.
C15_NotCumulative ==
    /\ [](view \in MaskedViews(orig, view.masked_rows))
    /\ [][(StepApplyMask /\ ~maskLog'.raised)
            => /\ view' \in MaskedViews(orig, maskLog'.masks)
               /\ IsEmptyMask(maskLog'.masks)
                    => view' = Unmasked(orig) /\ view'.masked_rows = EmptyMask]_vars

C15_Witness ==
    /\ maskLog.op = "set_masked_rows" /\ ~maskLog.raised
    /\ maskLog.before /\ ~IsEmptyMask(maskLog.masks)
    /\ view.masked_rows = maskLog.masks
    /\ view.ncols < orig.ncols /\ Len(view.x0) < Len(orig.x0)

\* --------------------------------------------------------------------- C16
\* C16: no call of set_masked_rows (returning or raising), S_from_y,
\* pad_masked_rows or solve changes the unmasked values _x0, _space and
\* _splits kept from the construction; a masking call replaces the view
\* alone.
C16_OriginalsKept ==
    /\ [][orig' = orig]_vars
    /\ [][view' # view => StepApplyMask]_vars

C16_Witness ==
    /\ pc = "idle" /\ result.status # "none"
    /\ ys # <<>>
    /\ ~IsEmptyMask(view.masked_rows)
    /\ view.x0 # orig.x0 /\ view.space # orig.space /\ view.splits # orig.splits

\* --------------------------------------------------------------------- C19
\* C19: every call of set_masked_rows leaves the history _ys empty, and
\* no other step takes a candidate out of it: a solve() call starts with
\* the history as it found it, its candidates are appended to it, and
\* combine averages the whole of it, the candidates of earlier calls
\* included.
C19_HistoryCleared ==
    /\ [][StepApplyMask => ys' = <<>>]_vars
    /\ [][~StepApplyMask
            => Len(ys') >= Len(ys) /\ SubSeq(ys', 1, Len(ys)) = ys]_vars
    /\ [][(pc = "idle" /\ pc' # "idle") => ys' = ys /\ ys0' = ys]_vars
    /\ [](pc # "idle" => SubSeq(ys, 1, Len(ys0)) = ys0)
    /\ [][(pc = "combine" /\ ys # <<>>)
            => combined' = ys /\ SubSeq(combined', 1, Len(ys0)) = ys0]_vars

C19_Witness ==
    /\ ~IsEmptyMask(view.masked_rows)
    /\ ys0 # <<>> /\ Len(ys) > Len(ys0)
    /\ combined = ys
    /\ pc = "idle" /\ result.status = "raised"

\* --------------------------------------------------------------------- C17
\* the number of rows not in the mask before row r
RankOutside(mask, r) == Cardinality({u \in 0..(r - 1) : u \notin Range(mask)})

\* C17 (as claimed): pad_masked_rows(S, key) gives S itself for a key
\* without mask, and otherwise a matrix of the unmasked size, zero in the
\* masked rows and columns, with the entries of S in the other places in
\* increasing order of the indices.
C17_Claimed ==
    maskLog.op = "pad_masked_rows" =>
        LET mask == Get(view.masked_rows, maskLog.key)
            S    == maskLog.S
            Z    == maskLog.Z
        IN  IF mask = <<>> THEN Z = S
            ELSE /\ Z.n = S.n + Len(mask)
                 /\ \A p \in DOMAIN Z.at :
                      Z.at[p] = IF p[1] \in Range(mask) \/ p[2] \in Range(mask) THEN 0
                                ELSE S.at[<<RankOutside(mask, p[1]), RankOutside(mask, p[2])>>]

\* --------------------------------------------------------------------- C18
RECURSIVE OwnLines(_, _, _)
\* the entries the masks name: those of the masked rows and columns of the
\* block of each key, from key i on
OwnLines(o, masks, i) ==
    IF i > Len(o.keys) THEN <<>>
    ELSE BlockLines(Get(masks, o.keys[i]), o.splits[i]) \o OwnLines(o, masks, i + 1)

\* the masked entries can be made zero
Consistent(o, masks) ==
    SolveUndeterminedLinear(o.x0, o.space, o.ncols, OwnLines(o, masks, 1)).ok

\* C18 (as claimed): a call of set_masked_rows with masks whose entries
\* cannot all be made zero raises, and the masks are not recorded.
C18_Claimed ==
    [][(StepApplyMask /\ ~Consistent(orig, maskLog'.masks))
        => maskLog'.raised /\ view'.masked_rows = EmptyMask]_vars

\* ----------------------------------------------- trivial and relax
\* the call runs the trivial or the relax strategy
OnePass == Numeric /\ Lower(method) \in {"trivial", "relax"}

\* the strategy of the call has returned r ("None" or "solution")
StrategyGave(r) == stages # <<>> /\ stages[1] = [name |-> "strategy", out |-> r]

\* --------------------------------------------------------------------- C22
\* C22: in the trivial and the relax strategy, the step in which a
\* candidate rationalizes is the step in which the strategy returns that
\* solution, and no objective is set afterwards in the call: the
\* objectives set are the first ones of the list, up to the one that gave
\* the candidate.  When the strategy returns None, every objective of the
\* list has been set once, in the order of the list.
C22_FirstCertificate ==
    /\ [][(OnePass /\ pc = "rationalize" /\ pc' # "rationalize")
            => \/ /\ IsNone(ra') /\ pc' \in {"set_objective", "generator_exit"}
                  /\ stages' = stages
               \/ /\ ra' = Decomp("rationalize", <<Last(ys)>>)
                  /\ pc' = "finish"
                  /\ stages' = <<Stage("strategy", ra')>>
                  /\ solved' = solved /\ solved = SubSeq(objs, 1, k)]_vars
    /\ [][(OnePass /\ stages # <<>> /\ pc # "idle") => solved' = solved]_vars
    /\ [](OnePass /\ StrategyGave("solution")
            => /\ Len(solved) <= Len(objs) /\ solved = SubSeq(objs, 1, Len(solved))
               /\ ra = Decomp("rationalize", <<Last(ys)>>))
    /\ [](OnePass /\ StrategyGave("None") => solved = objs)

C22_Witness ==
    /\ OnePass /\ StrategyGave("solution") /\ pc = "finish"
    /\ Len(objs) = 3 /\ Len(solved) = 2
    /\ Len(ys) = Len(ys0) + 1

\* --------------------------------------------------------------------- C23
\* C23 (as claimed): after the relax strategy the constraint list is the
\* list before the strategy, whether or not it found a solution: the
\* leading block's PSD constraint is back and the two constraints holding
\* lamb are gone.
C23_Claimed ==
    (OnePass /\ Lower(method) = "relax" /\ stages # <<>>
        /\ stages[1].out \in {"None", "solution"})
    => /\ constraints = cs0
       /\ \E j \in 1..Len(constraints) : IsLeadingLMI(constraints[j])
       /\ \A j \in 1..Len(constraints) :
             constraints[j] \notin {Con("relaxlmi", 1), Con("lamb", 0)}

\* --------------------------------------------------------------------- C27
\* C27: an execution that raises an exception other than
\* ZeroDivisionError is the last one for its objective, whatever its
\* budget: None is yielded for the objective, the history, the constraints
\* and the result of the call stay as they are, no error is raised, and
\* the generator goes on to the next objective of its list (or to its end
\* after the last one).
C27_ErrorIsNoSolution ==
    /\ [][(pc = "execute" /\ lastExec' = "Exception")
            => /\ budgets' = Append(budgets, iters)
               /\ ys' = ys /\ constraints' = constraints
               /\ result' = result /\ result.status = "none"
               /\ yielded' = Append(yielded, None)
               /\ k' = k + 1
               /\ pc' = IF k < Len(objs) THEN "set_objective" ELSE "generator_exit"]_vars
    /\ []((lastExec = "Exception" /\ budgets # <<>>)
            => /\ pc \in {"set_objective", "generator_exit"}
               /\ result.status = "none"
               /\ Last(yielded) = None)

C27_Witness ==
    /\ lastExec = "Exception" /\ pc = "set_objective"
    /\ budgets = <<50, 25>>
    /\ k = 2 /\ Len(ys) = Len(ys0)

Partition(splits, n) ==
    /\ splits = <<>> => n = 0
    /\ splits # <<>> => splits[1].start = 0 /\ splits[Len(splits)].stop = n
    /\ \A i \in 1..(Len(splits) - 1) : splits[i + 1].start = splits[i].stop

\* C24 (as claimed): after a call of set_masked_rows that returned, the
\* splits of the view are consecutive ranges, one for each key in key
\* order, that cover exactly the rows of the masked x0 and space; the range
\* of a key has d (d + 1) / 2 rows, d being the size of its block less the
\* length of its mask, which is what _masked_dims gives; with filter_zero
\* _masked_dims leaves out exactly the keys with d = 0.
C24_Claimed ==
    (maskLog.op = "set_masked_rows" /\ ~maskLog.raised) =>
        LET dims == MaskedDims(orig, view.masked_rows, FALSE)
        IN  /\ Len(dims) = Len(orig.keys) /\ Len(view.splits) = Len(orig.keys)
            /\ \A i \in 1..Len(dims) :
                  /\ dims[i].key = orig.keys[i]
                  /\ dims[i].dim = BlockSize(orig.splits[i])
                                     - Len(Get(view.masked_rows, orig.keys[i]))
                  /\ view.splits[i].stop - view.splits[i].start = Tri(dims[i].dim)
            /\ Partition(view.splits, Len(view.x0))
            /\ Len(view.space) = Len(view.x0)
            /\ MaskedDims(orig, view.masked_rows, TRUE)
                  = SelectSeq(dims, LAMBDA e : e.dim # 0)

\* --------------------------------------------------------------------- C25
\* the position of a key in self.keys
KeyIndex(o, key) == CHOOSE i \in 1..Len(o.keys) : o.keys[i] = key

\* C25 (as claimed): set_masked_rows takes for the mask of a key the
\* entries of the block of that key, and S_from_y gives a key the matrix
\* of the split at the position of the key, also when a block is empty.
C25_Claimed ==
    /\ maskLog.op = "set_masked_rows"
        => Lines(maskLog.masks, NotNoneKeys(orig, EmptyMask), orig.splits, 1)
             = OwnLines(orig, maskLog.masks, 1)
    /\ maskLog.op = "S_from_y"
        => \A p \in 1..Len(maskLog.pairs) :
              maskLog.pairs[p].split = view.splits[KeyIndex(orig, maskLog.pairs[p].key)]

\* --------------------------------------------------------------------- C26
\* C26: a call of set_masked_rows that raises leaves the unmasked view,
\* no masked rows and an empty history, whatever mask was in effect and
\* whatever candidates the history held when it was called.
C26_FailureResets ==
    [][(StepApplyMask /\ maskLog'.raised)
        => /\ view' = Unmasked(orig)
           /\ view'.masked_rows = EmptyMask
           /\ ys' = <<>>
           /\ dof' = orig.ncols /\ keys' = NotNoneKeys(orig, EmptyMask)
           /\ orig' = orig]_vars

C26_Witness ==
    /\ maskLog.op = "set_masked_rows" /\ maskLog.raised
    /\ maskLog.before /\ maskLog.hadYs
    /\ view = Unmasked(orig) /\ ys = <<>>

\* --------------------------------------------------------------------- C21
\* the outcomes of an attempt that make the loop of SDPSOS go on
FailedAttempts == {"no problem", "failed", "raised"}

\* C21: SDPSOS takes the entries of minor in their order, one attempt for
\* each; an attempt whose solve() or as_solution raised, or whose solve
\* gave no success, is followed by the attempt for the next entry; the
\* call returns the solution of the first attempt that succeeds and makes
\* no attempt after it; it returns None when every attempt has failed; it
\* never ends by an error.
C21_Attempts ==
    /\ [](sdpsos.pc # "idle"
            => /\ \A j \in 1..Len(sdpsos.log) - 1 : sdpsos.log[j] \in FailedAttempts
               /\ sdpsos.pc \in {"construct", "solve", "as_solution"}
                    => sdpsos.at \in 1..Len(sdpsos.minor) /\ Len(sdpsos.log) = sdpsos.at - 1
               /\ (sdpsos.pc \in {"solve", "as_solution"} /\ ~sdpsos.minor[sdpsos.at])
                    => keys = <<"major">>
               /\ sdpsos.pc = "loop" => Len(sdpsos.log) = sdpsos.at - 1)
    /\ [](sdpsos.pc = "done"
            => /\ sdpsos.out \in {"None", "solution"}
               /\ sdpsos.out = "solution"
                    => /\ Last(sdpsos.log) = "success" /\ Len(sdpsos.log) = sdpsos.at
                       /\ result.status = "returned" /\ result.value.success
               /\ sdpsos.out = "None"
                    => /\ Len(sdpsos.log) = Len(sdpsos.minor)
                       /\ \A j \in 1..Len(sdpsos.log) : sdpsos.log[j] \in FailedAttempts)
    /\ [][(sdpsos.pc = "solve" /\ pc = "idle" /\ result.status = "raised"
                /\ sdpsos' # sdpsos)
            => /\ sdpsos'.pc = "loop" /\ sdpsos'.out = "none"
               /\ sdpsos'.at = sdpsos.at + 1
               /\ sdpsos'.log = Append(sdpsos.log, "raised")]_vars
    /\ [][sdpsos.pc = "done" => sdpsos' = sdpsos /\ result' = result]_vars

C21_Witness ==
    /\ sdpsos.pc = "done" /\ sdpsos.out = "None"
    /\ sdpsos.minor = <<FALSE, TRUE>>
    /\ sdpsos.log = <<"failed", "raised">>
    /\ result = Raised("SDPRationalizeError")
    /\ keys = <<"major", "minor">>

\* --------------------------------------------------------------------- C29
\* C29: sum_of_square calls the solvers in the order of method_order
\* (without the argument: StructuralSOS, LinearSOS, SymmetricSOS, SDPSOS);
\* it returns the first solution that is not None and calls no solver
\* after it; it returns None when every solver of the list returned None.
C29_MethodOrder ==
    /\ []((sumOfSquare.pc # "idle" /\ ~sumOfSquare.given) => sumOfSquare.method_order
              = <<"StructuralSOS", "LinearSOS", "SymmetricSOS", "SDPSOS">>)
    /\ [](/\ Len(sumOfSquare.called) <= Len(sumOfSquare.method_order)
          /\ \A j \in 1..Len(sumOfSquare.called) :
                /\ sumOfSquare.called[j].name = sumOfSquare.method_order[j]
                /\ j < Len(sumOfSquare.called) => sumOfSquare.called[j].out = "None")
    /\ [](sumOfSquare.out = "solution"
            => /\ sumOfSquare.pc = "done"
               /\ Last(sumOfSquare.called).out = "solution"
               /\ Len(sumOfSquare.called) = sumOfSquare.at)
    /\ [](sumOfSquare.out = "None"
            => /\ sumOfSquare.pc = "done"
               /\ Len(sumOfSquare.called) = Len(sumOfSquare.method_order)
               /\ \A j \in 1..Len(sumOfSquare.called) : sumOfSquare.called[j].out = "None")
    /\ [][sumOfSquare.pc = "done" => sumOfSquare' = sumOfSquare]_vars

C29_Witness ==
    /\ sumOfSquare.pc = "done" /\ sumOfSquare.out = "solution"
    /\ ~sumOfSquare.given
    /\ Len(sumOfSquare.called) = 3
    /\ Last(sumOfSquare.called).name = "SymmetricSOS"

\* --------------------------------------------------------------------- C30
\* a call of GUI_SOS is running
InCall == gui.pc \notin {"idle", "done"}

\* C30: a call of GUI_SOS first sets the stage to 0, and no later step of
\* the call lowers it: it goes through 0, 10, 20, 30, then 30 + n for the
\* degrees n that failed, then 50 and, with a GUI, 60, or 70.  The call
\* ends with stage 70 exactly when it returns the empty string (setPoly
\* failed, the degree or the symmetry was refused, or every degree up to
\* updeg failed); otherwise with 50 without a GUI and with 60 with one.
C30_Stages ==
    /\ [][(~InCall /\ gui'.pc \notin {"idle", "done"}) => gui'.stage = 0]_vars
    /\ [][InCall => gui'.stage >= gui.stage]_vars
    /\ [](InCall => \/ (gui.pc \in {"setPoly", "check"} /\ gui.stage = 0)
                     \/ (gui.pc = "roots" /\ gui.stage = 10)
                     \/ (gui.pc = "tangents" /\ gui.stage = 20)
                     \/ (gui.pc = "degree"
                           /\ gui.stage = 30 + (IF gui.n > gui.deg THEN gui.n - 1 ELSE 0))
                     \/ (gui.pc = "result"
                           /\ gui.stage \in {50, 30 + (IF gui.n > gui.deg THEN gui.n - 1 ELSE 0)})
                     \/ (gui.pc = "render" /\ gui.stage = 50))
    /\ [](gui.pc = "done"
            => /\ gui.out \in {"empty", "result"}
               /\ gui.out = "empty" <=> gui.stage = 70
               /\ gui.out = "result" => gui.stage = (IF gui.GUI THEN 60 ELSE 50))
    /\ [][(InCall /\ gui'.out = "empty")
            => \/ gui.pc = "setPoly"
               \/ gui.pc = "check"
                    /\ (gui.deg <= 1 \/ gui.deg >= deglim \/ ~gui.poly_iscyc)
               \/ gui.pc = "degree" /\ gui.n > gui.updeg]_vars

C30_Witness ==
    /\ gui.pc = "done" /\ gui.out = "result"
    /\ gui.GUI /\ gui.stage = 60
    /\ gui.n >= gui.deg + 2

====
